---- MODULE Spec2Model ----
(***************************************************************************)
(* MarkDB: documents are cut into chunk records, the records are kept in   *)
(* the SQLite table "chunks", and selections of them are written back as   *)
(* Markdown.  The model follows the three revisions of the code that the   *)
(* repository holds side by side:                                          *)
(*   src/MarkDB.py              the first, synchronous single-file program *)
(*   src/MarkDB/process_*.py    the split modules (PDF pages on a pool)    *)
(*   src/MarkDB/utils.py, db.py the asyncio revision and the MarkDB class  *)
(* Strings are kept ASCII: "codigo" is the tag the code spells with an     *)
(* accent, PLACEHOLDER the text "Descricao nao disponivel" likewise.       *)
(***************************************************************************)
EXTENDS Integers, Sequences, FiniteSets, TLC

VARIABLES
    chunks,           \* the committed rows of table chunks, in rowid order
    sqlite_sequence,  \* AUTOINCREMENT's record of the largest rowid ever used
    openai_api_key,   \* TRUE when a key is configured (session state or secrets)
    job,              \* the extractor call in progress, or Idle
    ret               \* what the last finished call gave back to its caller

----------------------------------------------------------------------------
(* Python's None and SQL's NULL; a value that may be absent is None or <<v>> *)

None == <<>>
Some(v) == <<v>>

Max(a, b) == IF a >= b THEN a ELSE b

RECURSIVE Flatten(_)
Flatten(ss) == IF ss = <<>> THEN <<>> ELSE Head(ss) \o Flatten(Tail(ss))

Range(s) == {s[i] : i \in DOMAIN s}

----------------------------------------------------------------------------
(* Text.  A Python str is a sequence of tokens: a character of a document's *)
(* text is a one-character token, a literal of an f-string is one token.   *)

Digits == <<"0", "1", "2", "3", "4", "5", "6", "7", "8", "9">>

(* str(n) of a non-negative int *)
RECURSIVE IntStr(_)
IntStr(n) == IF n < 10 THEN Digits[n + 1]
             ELSE IntStr(n \div 10) \o Digits[(n % 10) + 1]

(* str(v) of a value that may be None, as a sequence of characters         *)
PyStr(v) == IF v = None THEN <<"None">> ELSE v[1]

IsDigit(c) == c \in Range(Digits)
IsAlpha(c) == c \in {"a", "b", "c", "d", "e", "f"}
IsSpace(c) == c \in {" ", "\n", "\t"}
BACKTICK == "<backtick>"     \* the character U+0060

(* str.strip() *)
RECURSIVE LStrip(_)
LStrip(s) == IF s # <<>> /\ IsSpace(Head(s)) THEN LStrip(Tail(s)) ELSE s

RECURSIVE RStrip(_)
RStrip(s) == IF s # <<>> /\ IsSpace(s[Len(s)])
             THEN RStrip(SubSeq(s, 1, Len(s) - 1)) ELSE s

Strip(s) == RStrip(LStrip(s))

(* the number of places where `sub` occurs in `s`                          *)
Occurrences(sub, s) ==
    Cardinality({ i \in 1..(Len(s) - Len(sub) + 1) :
                    SubSeq(s, i, i + Len(sub) - 1) = sub })

Contains(sub, s) == \E i \in 1..(Len(s) - Len(sub) + 1) :
                       SubSeq(s, i, i + Len(sub) - 1) = sub

----------------------------------------------------------------------------
(* detect_chunk_type *)

LISTA_MIN_LINES == 5
LISTA_LINE_LEN == 100

(* chunk.split('\n'): the pieces between the line breaks, the k-th piece   *)
(* lying between the (k-1)-th and the k-th line break                      *)
SplitLines(s) ==
    LET breaks == { i \in DOMAIN s : s[i] = "\n" }
        n == Cardinality(breaks)
        brk(k) == IF k = 0 THEN 0
                  ELSE IF k = n + 1 THEN Len(s) + 1
                  ELSE CHOOSE i \in breaks :
                          Cardinality({ j \in breaks : j < i }) = k - 1
    IN  [k \in 1..(n + 1) |-> SubSeq(s, brk(k - 1) + 1, brk(k) - 1)]

CountAlpha(s) == Cardinality({ i \in DOMAIN s : IsAlpha(s[i]) })

(* the digits are looked for before the fence                              *)
detect_chunk_type_digits_before_fence(chunk) ==
    IF (\E i \in DOMAIN chunk : IsDigit(chunk[i]))
       /\ 2 * CountAlpha(chunk) < Len(chunk) THEN "dados numericos"
    ELSE IF Contains(<<BACKTICK, BACKTICK, BACKTICK>>, chunk) THEN "codigo"
    ELSE IF /\ Len(SplitLines(chunk)) > LISTA_MIN_LINES
            /\ \A l \in Range(SplitLines(chunk)) : Len(l) < LISTA_LINE_LEN
         THEN "lista"
    ELSE "texto"

(* the quotient is computed before any() has looked for a digit            *)
detect_chunk_type_divides_first(chunk) ==
    IF Contains(<<BACKTICK, BACKTICK, BACKTICK>>, chunk) THEN "codigo"
    ELSE IF Len(chunk) = 0 THEN "ZeroDivisionError"
    ELSE IF (\E i \in DOMAIN chunk : IsDigit(chunk[i]))
            /\ 2 * CountAlpha(chunk) < Len(chunk) THEN "dados numericos"
    ELSE IF /\ Len(SplitLines(chunk)) > LISTA_MIN_LINES
            /\ \A l \in Range(SplitLines(chunk)) : Len(l) < LISTA_LINE_LEN
         THEN "lista"
    ELSE "texto"

(* The second test divides by len(chunk) once a digit has been found.      *)
detect_chunk_type(chunk) ==
    IF Contains(<<BACKTICK, BACKTICK, BACKTICK>>, chunk) THEN "codigo"
    ELSE IF (\E i \in DOMAIN chunk : IsDigit(chunk[i]))
            /\ Len(chunk) = 0 THEN "ZeroDivisionError"
    ELSE IF (\E i \in DOMAIN chunk : IsDigit(chunk[i]))
            /\ 2 * CountAlpha(chunk) < Len(chunk) THEN "dados numericos"
    ELSE IF /\ Len(SplitLines(chunk)) > LISTA_MIN_LINES
            /\ \A l \in Range(SplitLines(chunk)) : Len(l) < LISTA_LINE_LEN
         THEN "lista"
    ELSE "texto"

----------------------------------------------------------------------------
(* format_table.  A cell is None or <<text>>, the text being a sequence of *)
(* characters; str(cell) prints it.                                        *)

RECURSIVE JoinCells(_, _)
JoinCells(cells, sep) ==
    IF cells = <<>> THEN <<>>
    ELSE IF Len(cells) = 1 THEN Head(cells)
    ELSE Head(cells) \o <<sep>> \o JoinCells(Tail(cells), sep)

TableLine(cells) == <<"| ">> \o JoinCells(cells, " | ") \o <<" |", "\n">>

CellStrs(row) == [i \in DOMAIN row |-> PyStr(row[i])]

(* a table is emitted for a header alone                                   *)
format_table_from_one_row(matrix) ==
    IF matrix = <<>> THEN <<>>
    ELSE TableLine(CellStrs(matrix[1]))
         \o TableLine([i \in DOMAIN matrix[1] |-> <<"---">>])
         \o Flatten([r \in 1..(Len(matrix) - 1) |->
                       TableLine(CellStrs(matrix[r + 1]))])

format_table(matrix) ==
    IF matrix = <<>> \/ Len(matrix) < 2 THEN <<>>
    ELSE TableLine(CellStrs(matrix[1]))
         \o TableLine([i \in DOMAIN matrix[1] |-> <<"---">>])
         \o Flatten([r \in 1..(Len(matrix) - 1) |->
                       TableLine(CellStrs(matrix[r + 1]))])

----------------------------------------------------------------------------
(* textwrap.wrap(text, width) with the defaults of TextWrapper: whitespace *)
(* is replaced by blanks, the text is split into runs of blanks and pieces *)
(* of words (wordsep_re: a word also ends after a hyphen between letters   *)
(* and around a dash of two or more hyphens), the pieces are packed        *)
(* greedily, a piece longer than the width is cut (break_long_words, after *)
(* a hyphen if there is one), blanks at a line's ends are dropped.         *)

munge_whitespace(text) == [i \in DOMAIN text |-> IF IsSpace(text[i]) THEN " " ELSE text[i]]

(* the character at position i, "" outside the text                        *)
At(text, i) == IF i \in DOMAIN text THEN text[i] ELSE ""

IsWordChar(c) == IsAlpha(c) \/ IsDigit(c) \/ c = "_"                 \* \w
IsWordPunct(c) == IsWordChar(c) \/ c \in {"!", "\"", "'", "&", ".", ",", "?"}
IsLetter(c) == IsAlpha(c) \/ c = "_"                                 \* [^\d\W]

(* the last position of the run of c that starts at p                      *)
RECURSIVE RunEnd(_, _, _)
RunEnd(text, p, c) == IF At(text, p + 1) = c THEN RunEnd(text, p + 1, c) ELSE p

(* -{2,}(?=\w) at position q                                               *)
DashAt(text, q) ==
    /\ At(text, q) = "-" /\ At(text, q + 1) = "-"
    /\ IsWordChar(At(text, RunEnd(text, q, "-") + 1))

(* the hyphen at q ends a piece: two letters, or letter-hyphen-letter,     *)
(* before it, and a letter, an optional hyphen and a letter after it       *)
HyphenBreakAt(text, q) ==
    /\ At(text, q) = "-"
    /\ \/ IsLetter(At(text, q - 2)) /\ IsLetter(At(text, q - 1))
       \/ /\ IsLetter(At(text, q - 3)) /\ At(text, q - 2) = "-"
          /\ IsLetter(At(text, q - 1))
    /\ IsLetter(At(text, q + 1))
    /\ \/ IsLetter(At(text, q + 2))
       \/ At(text, q + 2) = "-" /\ IsLetter(At(text, q + 3))

(* the third alternative of wordsep_re from p on, the characters before q  *)
(* being taken: the shortest piece that one of its three ends allows       *)
RECURSIVE WordPieceEnd(_, _)
WordPieceEnd(text, q) ==
    IF HyphenBreakAt(text, q) THEN q
    ELSE IF At(text, q) \in {"", " "} THEN q - 1
    ELSE IF IsWordPunct(At(text, q - 1)) /\ DashAt(text, q) THEN q - 1
    ELSE WordPieceEnd(text, q + 1)

(* the last position of the match of wordsep_re that starts at p           *)
ChunkEnd(text, p) ==
    IF text[p] = " " THEN RunEnd(text, p, " ")
    ELSE IF IsWordPunct(At(text, p - 1)) /\ DashAt(text, p) THEN RunEnd(text, p, "-")
    ELSE WordPieceEnd(text, p + 1)

(* _split(text): wordsep_re.split                                          *)
RECURSIVE split(_, _)
split(text, p) ==
    IF p > Len(text) THEN <<>>
    ELSE <<SubSeq(text, p, ChunkEnd(text, p))>> \o split(text, ChunkEnd(text, p) + 1)

IsBlank(run) == \A i \in DOMAIN run : run[i] = " "

(* the inner loop: move runs to cur_line while they fit                    *)
RECURSIVE fill_line(_, _, _)
fill_line(runs, cur_line, width) ==
    IF runs # <<>> /\ Len(Flatten(cur_line)) + Len(Head(runs)) <= width
    THEN fill_line(Tail(runs), Append(cur_line, Head(runs)), width)
    ELSE <<runs, cur_line>>

(* the piece kept whole: break_long_words = False                          *)
handle_long_word_keeps_it_whole(runs, cur_line, width) ==
    IF cur_line = <<>> THEN << Tail(runs), <<Head(runs)>> >>
    ELSE << runs, cur_line >>

(* _handle_long_word with break_long_words and break_on_hyphens            *)
handle_long_word(runs, cur_line, width) ==
    LET space_left == IF width < 1 THEN 1 ELSE width - Len(Flatten(cur_line))
        chunk == Head(runs)
        hyphens == { i \in 1..space_left : chunk[i] = "-" }
        hyphen == IF hyphens = {} THEN 0
                  ELSE CHOOSE i \in hyphens : \A j \in hyphens : j <= i
        end == IF /\ Len(chunk) > space_left
                  /\ hyphens # {}
                  /\ \E i \in 1..(hyphen - 1) : chunk[i] # "-"
               THEN hyphen ELSE space_left
    IN  << <<SubSeq(chunk, end + 1, Len(chunk))>> \o Tail(runs),
           Append(cur_line, SubSeq(chunk, 1, end)) >>

(* the last piece of the line dropped whether it is blank or not           *)
drop_trailing_whatever_it_is(cur_line) ==
    IF cur_line # <<>> THEN SubSeq(cur_line, 1, Len(cur_line) - 1) ELSE cur_line

drop_trailing(cur_line) ==
    IF cur_line # <<>> /\ IsBlank(cur_line[Len(cur_line)])
    THEN SubSeq(cur_line, 1, Len(cur_line) - 1) ELSE cur_line

RECURSIVE wrap_chunks(_, _, _)
wrap_chunks(runs, lines, width) ==
    IF runs = <<>> THEN lines
    ELSE LET r0 == IF IsBlank(Head(runs)) /\ lines # <<>> THEN Tail(runs) ELSE runs
             f  == fill_line(r0, <<>>, width)
             h  == IF f[1] # <<>> /\ Len(Head(f[1])) > width
                   THEN handle_long_word(f[1], f[2], width) ELSE f
             cur_line == drop_trailing(h[2])
         IN  wrap_chunks(h[1],
                         IF cur_line # <<>> THEN Append(lines, Flatten(cur_line))
                         ELSE lines,
                         width)

wrap(text, width) == wrap_chunks(split(munge_whitespace(text), 1), <<>>, width)

----------------------------------------------------------------------------
(* Bounds of the model *)

MaxAdd == 3        \* add_chunk calls whose rows the store holds
MaxAddIngest == 1  \* add_chunk calls among the uploads
MaxStored == 1     \* rows the store holds at most when an upload starts
ChunkSize == 4     \* st.session_state.CHUNK_SIZE, scaled to the texts of the model
OverPages == 1     \* pages of the large PDF beyond the pool threshold

----------------------------------------------------------------------------
(* The table: CREATE TABLE chunks (id INTEGER PRIMARY KEY AUTOINCREMENT, ...) *)

Idle == [kind |-> "idle"]

ISO == "isoformat"      \* datetime.now().isoformat()
DMY == "dd/mm/yyyy"     \* datetime.now().strftime("%d/%m/%Y")

(* The rowid AUTOINCREMENT gives the next row of a connection that sees    *)
(* the rows `rows` and the sequence value `seq`.                           *)
MaxRowid(rows) == IF rows = <<>> THEN 0 ELSE rows[Len(rows)].id

(* a rowid that is the largest one in use                                  *)
NextRowid_largest_in_use(rows, seq) == Max(1, Max(seq, MaxRowid(rows)))

NextRowid(rows, seq) == Max(seq, MaxRowid(rows)) + 1

(* INSERT INTO chunks (file_name, ..., image_data) VALUES (?, ..., ?)      *)
Insert(rows, seq, v) ==
    rows \o << [id                |-> NextRowid(rows, seq),
                file_name         |-> v[1],
                page_number       |-> v[2],
                chunk_number      |-> v[3],
                content           |-> v[4],
                chunk_content     |-> v[5],
                upload_time       |-> v[6],
                image_description |-> v[7],
                image_data        |-> v[8]] >>

RECURSIVE InsertMany(_, _, _)
InsertMany(rows, seq, vs) ==
    IF vs = <<>> THEN rows
    ELSE InsertMany(Insert(rows, seq, Head(vs)), seq, Tail(vs))

(* SELECT * FROM chunks WHERE file_name = ?                                *)
SelectFile(rows, file_name) == SelectSeq(rows, LAMBDA r : r.file_name = file_name)

(* ORDER BY page_number, chunk_number: SQLite puts NULL before every       *)
(* integer; rows with equal keys come in an order SQL leaves open.         *)
(* an ORDER BY chunk_number alone                                         *)
KeyLess_chunk_number_only(r, s) == r.chunk_number < s.chunk_number

KeyLess(r, s) ==
    \/ r.page_number = None /\ s.page_number # None
    \/ /\ r.page_number # None /\ s.page_number # None
       /\ r.page_number[1] < s.page_number[1]
    \/ /\ r.page_number = s.page_number
       /\ r.chunk_number < s.chunk_number

RECURSIVE OrderedFrom(_, _)
OrderedFrom(rows, I) ==
    IF I = {} THEN {<<>>}
    ELSE UNION { { <<rows[m]>> \o t : t \in OrderedFrom(rows, I \ {m}) } :
                 m \in { i \in I : \A j \in I : ~KeyLess(rows[j], rows[i]) } }

OrderBy(rows) == OrderedFrom(rows, DOMAIN rows)

----------------------------------------------------------------------------
(* Markdown export: the text is the concatenation of the f-strings of      *)
(* md_parts.                                                               *)

Tok(str) == IF str = "" THEN <<>> ELSE <<str>>

(* f"{v}" of a nullable INTEGER column, of a nullable TEXT column          *)
FmtInt(v) == IF v = None THEN <<"None">> ELSE <<IntStr(v[1])>>
FmtText(v) == IF v = None THEN <<"None">> ELSE Tok(v[1])

Truthy(v) == v # None /\ v[1] # ""

(* a section that stops after its metadata                                 *)
SectionParts_metadata_only(row) ==
    << "---\n",
       "**ID:** ", IntStr(row.id), "\n\n",
       "**Nome do Arquivo:** ", row.file_name, "\n\n",
       "**Pagina:** " >> \o FmtInt(row.page_number) \o << "\n\n",
       "**Chunk:** ", IntStr(row.chunk_number), "\n\n",
       "**Tipo:** ", row.chunk_content, "\n\n",
       "**Data de upload:** ", row.upload_time, "\n\n" >>

SectionParts(row) ==
    << "---\n",
       "**ID:** ", IntStr(row.id), "\n\n",
       "**Nome do Arquivo:** ", row.file_name, "\n\n",
       "**Pagina:** " >> \o FmtInt(row.page_number) \o << "\n\n",
       "**Chunk:** ", IntStr(row.chunk_number), "\n\n",
       "**Tipo:** ", row.chunk_content, "\n\n",
       "**Data de upload:** ", row.upload_time, "\n\n" >>
    \o IF row.chunk_content = "imagem"
       THEN << "## Descricao da Imagem\n\n" >>
            \o FmtText(row.image_description) \o << "\n\n" >>
            \o IF Truthy(row.image_data)
               THEN << "![Imagem](data:image/png;base64,", row.image_data[1], ")\n\n" >>
               ELSE << >>
       ELSE << "## Conteudo\n\n" >> \o row.content \o << "\n\n" >>

RECURSIVE JoinSections(_)
JoinSections(rows) ==
    IF rows = <<>> THEN <<>>
    ELSE SectionParts(Head(rows)) \o JoinSections(Tail(rows))

(* export_all_chunks_to_md once the SELECT has given `rows`                *)
ExportAll(file_name, rows) ==
    IF rows = <<>> THEN <<None, None>>
    ELSE << <<"# ", file_name, "\n\n">> \o JoinSections(rows),
            <<"documento_completo_", file_name, ".md">> >>

----------------------------------------------------------------------------
(* Captioning *)

PLACEHOLDER == "Descricao nao disponivel"
PLACEHOLDER_NO_API == "Descricao nao disponivel (API nao configurada)"
DESCRIPTION == "uma foto"

(* What the completion service does with one request: it answers with a    *)
(* description, fails, answers with no content, or with an empty one.      *)
ServiceOutcomes == {"ok", "error", "none", "blank"}

(* get_openai_client() is not None *)
HasClient(key) == key

generate_image_description(key, outcome) ==
    IF ~HasClient(key) THEN None
    ELSE IF outcome = "ok" THEN Some(DESCRIPTION)
    ELSE IF outcome = "blank" THEN Some("")
    ELSE None

(* base64.b64encode(image_bytes).decode('ascii') *)
b64encode(bytes) ==
    IF bytes = "ABC" THEN "QUJD"
    ELSE IF bytes = "xyz" THEN "eHl6"
    ELSE ""

----------------------------------------------------------------------------
(* The content field the extractors write *)

Header(file_name, page_number, chunk_counter) ==
    << "**Arquivo**: ", file_name >>
    \o (IF page_number = None THEN << >>
        ELSE << "\n**Pagina**: ", IntStr(page_number[1]) >>)
    \o << "\n**Chunk**: ", IntStr(chunk_counter), "\n\n" >>

ImageMeta(file_name, page_number, chunk_counter, image_description) ==
    << "**Arquivo**: ", file_name,
       "\n**Pagina**: ", IntStr(page_number[1]),
       "\n**Chunk**: ", IntStr(chunk_counter),
       "\n**Descricao**: " >> \o FmtText(image_description)

(* if text.strip(): chunks = textwrap.wrap(text, CHUNK_SIZE)               *)
Pieces(text) == IF Strip(text) = <<>> THEN <<>> ELSE wrap(text, ChunkSize)

TextValues(file_name, page_number, pieces, first) ==
    [ i \in 1..Len(pieces) |->
        << file_name, page_number, first + i - 1,
           Header(file_name, page_number, first + i - 1) \o Strip(pieces[i]),
           detect_chunk_type(pieces[i]), DMY, None, None >> ]

RECURSIVE TableValues(_, _, _, _)
TableValues(file_name, page_number, tables, chunk_counter) ==
    IF tables = <<>> THEN <<>>
    ELSE IF format_table(Head(tables)) # <<>>
    THEN << << file_name, page_number, chunk_counter,
               Header(file_name, page_number, chunk_counter)
                   \o format_table(Head(tables)),
               "tabela", DMY, None, None >> >>
         \o TableValues(file_name, page_number, Tail(tables), chunk_counter + 1)
    ELSE TableValues(file_name, page_number, Tail(tables), chunk_counter)

ImageValue(file_name, page_number, chunk_counter, image_description, img) ==
    << file_name, page_number, chunk_counter,
       ImageMeta(file_name, page_number, chunk_counter, image_description),
       "imagem", DMY, image_description, Some(b64encode(img.bytes)) >>

----------------------------------------------------------------------------
(* Input documents.  A PDF is its pages; a page has its text, the cell     *)
(* matrices of its tables and its embedded images; extract_image fails on  *)
(* an image that is not extractable.                                       *)

IMG_A == [bytes |-> "ABC", extractable |-> TRUE]
IMG_X == [bytes |-> "xyz", extractable |-> TRUE]
IMG_BAD == [bytes |-> "", extractable |-> FALSE]

TABLE_2x2 == << <<Some(<<"h">>), Some(<<"k">>)>>, <<Some(<<"1">>), None>> >>
TABLE_HEADER_ONLY == << <<Some(<<"h">>), Some(<<"k">>)>> >>

PAGE_TEXT == [text |-> <<"a", "b", " ", "c", "d">>, tables |-> <<>>, images |-> <<>>]
PAGE_MIXED == [text |-> <<"1", "2", "\n">>, tables |-> <<TABLE_HEADER_ONLY, TABLE_2x2>>,
               images |-> <<IMG_A>>]
PAGE_IMAGES == [text |-> <<" ">>, tables |-> <<>>, images |-> <<IMG_BAD, IMG_X>>]
PAGE_BLANK == [text |-> <<>>, tables |-> <<>>, images |-> <<>>]

PdfDocs == { <<PAGE_MIXED>>,
             <<PAGE_TEXT, PAGE_MIXED>>,
             <<PAGE_IMAGES, PAGE_TEXT>> }

(* the pool is used for a document of more than THRESHOLD pages            *)
POOL_THRESHOLD == 10
max_workers == 4

LargePdf == [ i \in 1..(POOL_THRESHOLD + OverPages) |->
                IF i = 3 THEN PAGE_MIXED
                ELSE IF i % 3 = 2 THEN PAGE_BLANK
                ELSE PAGE_TEXT ]

PdfFileNames == {"a.pdf"}

(* an upload starts while the store is small                               *)
Fits == Len(chunks) <= MaxStored

(* what the service does with the requests of one page, one per image      *)
Outcomes(page, key) ==
    IF HasClient(key) THEN [1..Len(page.images) -> ServiceOutcomes]
    ELSE {[i \in 1..Len(page.images) |-> "error"]}

----------------------------------------------------------------------------
(* The connection of an extractor: its INSERTs stay in its transaction     *)
(* until conn.commit(); a connection closed or dropped before that leaves  *)
(* the table as it was.                                                    *)

TxnInsert(txn, values) ==
    SubSeq(InsertMany(chunks \o txn, sqlite_sequence, values),
           Len(chunks) + 1, Len(chunks) + Len(txn) + Len(values))

(* a commit that leaves only the rows of this transaction in the table     *)
Commit_replaces_the_rows(txn) ==
    /\ chunks' = txn
    /\ sqlite_sequence' = MaxRowid(chunks \o txn)

Commit(txn) ==
    /\ chunks' = chunks \o txn
    /\ sqlite_sequence' = MaxRowid(chunks \o txn)

Rollback == UNCHANGED <<chunks, sqlite_sequence>>

(* What a call of an extractor leaves behind: how it ended ("raised", or   *)
(* the value it returned), whether a write to the store had failed, the    *)
(* page it was at when it gave up (0: none) and the rows it had inserted,   *)
(* for the file and the document it was given.                             *)
Result(op, rev, file_name, doc, outcome, write_failed, failed_page, inserted) ==
    [op |-> op, rev |-> rev, file_name |-> file_name, doc |-> doc,
     outcome |-> outcome, write_failed |-> write_failed,
     failed_page |-> failed_page, inserted |-> inserted]

(* a call has begun and has not come back                                 *)
Running == [op |-> "running"]

PDF == "process_pdf_to_chunks"
IMAGE == "process_image_to_chunks"

----------------------------------------------------------------------------
(* src/MarkDB.py, process_pdf_to_chunks: the pages one after another, one  *)
(* INSERT per chunk, one commit after the last page.                       *)

RECURSIVE V1ImageValues(_, _, _, _, _, _)
V1ImageValues(file_name, page_number, images, outcomes, chunk_counter, key) ==
    IF images = <<>> THEN <<>>
    ELSE LET d == generate_image_description(key, Head(outcomes))
             image_description ==
                 IF ~HasClient(key) THEN Some(PLACEHOLDER_NO_API)
                 ELSE IF d = None THEN Some(PLACEHOLDER)
                 ELSE d
         IN  << ImageValue(file_name, page_number, chunk_counter,
                           image_description, Head(images)) >>
             \o V1ImageValues(file_name, page_number, Tail(images),
                              Tail(outcomes), chunk_counter + 1, key)

(* the counter set back to 1 before the tables                             *)
TextTableValues_counter_restarts(file_name, page_index, page) ==
    TextValues(file_name, Some(page_index + 1), Pieces(page.text), 1)
    \o TableValues(file_name, Some(page_index + 1), page.tables, 1)

TextTableValues(file_name, page_index, page) ==
    LET t == TextValues(file_name, Some(page_index + 1), Pieces(page.text), 1)
    IN  t \o TableValues(file_name, Some(page_index + 1), page.tables, Len(t) + 1)

V1PageValues(file_name, page_index, page, outcomes, key) ==
    LET tt == TextTableValues(file_name, page_index, page)
    IN  tt \o V1ImageValues(file_name, Some(page_index + 1), page.images,
                            outcomes, Len(tt) + 1, key)

(* the page raises: an INSERT of its text or tables fails, or              *)
(* doc.extract_image, which is called outside the try, fails               *)
V1PageRaises(page_index, page, fault) ==
    \/ fault /\ TextTableValues("", page_index, page) # <<>>
    \/ \E i \in DOMAIN page.images : ~page.images[i].extractable

process_pdf_to_chunks_v1(file_name, doc) ==
    /\ job = Idle
    /\ job' = [kind |-> "v1", file_name |-> file_name, doc |-> doc,
               page_index |-> 0, txn |-> <<>>, write_failed |-> FALSE]
    /\ ret' = Running
    /\ UNCHANGED <<chunks, sqlite_sequence, openai_api_key>>

v1_page ==
    /\ job.kind = "v1"
    /\ job.page_index < Len(job.doc)
    /\ LET page == job.doc[job.page_index + 1] IN
       \E outcomes \in Outcomes(page, openai_api_key), fault \in BOOLEAN :
          IF V1PageRaises(job.page_index, page, fault)
          THEN /\ job' = Idle
               /\ ret' = Result(PDF, "MarkDB.py", job.file_name, job.doc, "raised",
                                job.write_failed \/ fault, job.page_index + 1,
                                job.txn)
          ELSE /\ job' = [job EXCEPT
                           !.page_index = @ + 1,
                           !.write_failed = @ \/ (fault /\ page.images # <<>>),
                           !.txn = TxnInsert(@,
                               IF fault THEN <<>>
                               ELSE V1PageValues(job.file_name, job.page_index,
                                                 page, outcomes, openai_api_key))]
               /\ ret' = ret
    /\ Rollback
    /\ UNCHANGED openai_api_key

v1_commit ==
    /\ job.kind = "v1"
    /\ job.page_index = Len(job.doc)
    /\ Commit(job.txn)
    /\ job' = Idle
    /\ ret' = Result(PDF, "MarkDB.py", job.file_name, job.doc, "None", job.write_failed,
                     0, job.txn)
    /\ UNCHANGED openai_api_key

----------------------------------------------------------------------------
(* src/MarkDB/process_pdf.py, process_pdf_to_chunks: one connection and    *)
(* one cursor, made by the calling thread; process_page collects the rows  *)
(* of a page and writes them with one executemany.  (The module takes      *)
(* DB_PATH from db, which has it only as an attribute of MarkDB; the       *)
(* function is modelled as written, with the path of the store bound.)     *)

RECURSIVE PoolImageValues(_, _, _, _, _, _)
PoolImageValues(file_name, page_number, images, outcomes, chunk_counter, key) ==
    IF images = <<>> THEN <<>>
    ELSE IF ~Head(images).extractable
    THEN PoolImageValues(file_name, page_number, Tail(images), Tail(outcomes),
                         chunk_counter, key)
    ELSE LET d == generate_image_description(key, Head(outcomes))
             image_description ==
                 IF HasClient(key) /\ Truthy(d) THEN d ELSE Some(PLACEHOLDER)
         IN  << ImageValue(file_name, page_number, chunk_counter,
                           image_description, Head(images)) >>
             \o PoolImageValues(file_name, page_number, Tail(images),
                                Tail(outcomes), chunk_counter + 1, key)

(* chunks_to_insert of process_page(page_index) *)
process_page(file_name, page_index, page, outcomes, key) ==
    LET tt == TextTableValues(file_name, page_index, page)
    IN  tt \o PoolImageValues(file_name, Some(page_index + 1), page.images,
                              outcomes, Len(tt) + 1, key)

(* sqlite3.connect(DB_PATH): check_same_thread is left at its default, so  *)
(* a thread other than the one that made the connection gets               *)
(* sqlite3.ProgrammingError from every call on it or on its cursors.       *)
check_same_thread == TRUE
MAIN_THREAD == 0
Workers == 1..max_workers

process_pdf_to_chunks(file_name, doc) ==
    /\ job = Idle
    /\ job' = [kind |-> IF Len(doc) > POOL_THRESHOLD THEN "pool" ELSE "loop",
               file_name |-> file_name, doc |-> doc, conn_thread |-> MAIN_THREAD,
               page_index |-> 0, txn |-> <<>>, write_failed |-> FALSE,
               futures |-> [i \in 1..Len(doc) |-> "pending"],
               w |-> [t \in Workers |->
                        [pc |-> "idle", page_index |-> 0, chunks_to_insert |-> <<>>]]]
    /\ ret' = Running
    /\ UNCHANGED <<chunks, sqlite_sequence, openai_api_key>>

(* for page_index in range(len(doc)): process_page(page_index)             *)
loop_page ==
    /\ job.kind = "loop"
    /\ job.page_index < Len(job.doc)
    /\ LET page == job.doc[job.page_index + 1] IN
       \E outcomes \in Outcomes(page, openai_api_key), fault \in BOOLEAN :
          LET chunks_to_insert ==
                  process_page(job.file_name, job.page_index, page, outcomes,
                               openai_api_key)
          IN  IF fault /\ chunks_to_insert # <<>>
              THEN /\ job' = Idle
                   /\ ret' = Result(PDF, "process_pdf.py", job.file_name, job.doc, "raised",
                                    TRUE, job.page_index + 1, job.txn)
              ELSE /\ job' = [job EXCEPT !.page_index = @ + 1,
                                         !.txn = TxnInsert(@, chunks_to_insert)]
                   /\ ret' = ret
    /\ Rollback
    /\ UNCHANGED openai_api_key

(* executor.map(process_page, range(len(doc))): the pages wait in the      *)
(* queue of the pool; an idle worker takes the next one and runs           *)
(* process_page up to its last statement, the executemany                  *)
worker_process_page(t) ==
    /\ job.kind = "pool"
    /\ job.w[t].pc = "idle"
    /\ job.page_index < Len(job.doc)
    /\ LET page_index == job.page_index
           page == job.doc[page_index + 1]
       IN \E outcomes \in Outcomes(page, openai_api_key) :
            LET chunks_to_insert ==
                    process_page(job.file_name, page_index, page, outcomes,
                                 openai_api_key)
            IN  job' = IF chunks_to_insert = <<>>
                       THEN [job EXCEPT !.page_index = @ + 1,
                                        !.futures[page_index + 1] = "done"]
                       ELSE [job EXCEPT !.page_index = @ + 1,
                                        !.futures[page_index + 1] = "running",
                                        !.w[t] = [pc |-> "executemany",
                                                  page_index |-> page_index,
                                                  chunks_to_insert |-> chunks_to_insert]]
    /\ UNCHANGED <<chunks, sqlite_sequence, openai_api_key, ret>>

(* c.executemany(INSERT ..., chunks_to_insert) on the shared cursor c; an  *)
(* exception ends the task and stays in its future, which nobody reads.    *)
worker_executemany(t) ==
    /\ job.kind = "pool"
    /\ job.w[t].pc = "executemany"
    /\ \E fault \in BOOLEAN :
         job' = IF (check_same_thread /\ t # job.conn_thread) \/ fault
                THEN [job EXCEPT !.futures[job.w[t].page_index + 1] = "exception",
                                 !.write_failed = TRUE,
                                 !.w[t].pc = "idle",
                                 !.w[t].chunks_to_insert = <<>>]
                ELSE [job EXCEPT !.futures[job.w[t].page_index + 1] = "done",
                                 !.txn = TxnInsert(@, job.w[t].chunks_to_insert),
                                 !.w[t].pc = "idle",
                                 !.w[t].chunks_to_insert = <<>>]
    /\ UNCHANGED <<chunks, sqlite_sequence, openai_api_key, ret>>

PagesDone ==
    \/ job.kind = "loop" /\ job.page_index = Len(job.doc)
    \/ job.kind = "pool" /\ \A i \in DOMAIN job.futures :
                                job.futures[i] \in {"done", "exception"}

(* conn.commit(); conn.close(); the function returns None                  *)
process_pdf_commit ==
    /\ job.kind \in {"loop", "pool"}
    /\ PagesDone
    /\ Commit(job.txn)
    /\ job' = Idle
    /\ ret' = Result(PDF, "process_pdf.py", job.file_name, job.doc, "None",
                     job.write_failed, 0, job.txn)
    /\ UNCHANGED openai_api_key

----------------------------------------------------------------------------
(* src/MarkDB/utils.py, process_pdf_to_chunks: one task per page, gathered *)
(* on one aiosqlite connection; a task gives way at each await, that is    *)
(* at each INSERT and at each captioning call.                             *)

(* the awaits of the task of one page: its text and table INSERTs, then    *)
(* one _process_pdf_image per image; chunk_counter goes up at each         *)
AsyncSteps(file_name, page_index, page) ==
    Len(TextTableValues(file_name, page_index, page)) + Len(page.images)

(* the INSERT of _process_pdf_image for the image at chunk_counter         *)
AsyncImageValue(file_name, page_index, img, chunk_counter, key, outcome) ==
    ImageValue(file_name, Some(page_index + 1), chunk_counter,
               generate_image_description(key, outcome), img)

process_pdf_to_chunks_async(file_name, doc) ==
    /\ job = Idle
    /\ job' = [kind |-> "async", file_name |-> file_name, doc |-> doc,
               pos |-> [i \in 1..Len(doc) |-> 0], txn |-> <<>>,
               write_failed |-> FALSE]
    /\ ret' = Running
    /\ UNCHANGED <<chunks, sqlite_sequence, openai_api_key>>

(* the task of page i runs to its next await                               *)
async_page_step(i) ==
    /\ job.kind = "async"
    /\ i \in DOMAIN job.doc
    /\ job.pos[i] < AsyncSteps(job.file_name, i - 1, job.doc[i])
    /\ LET page == job.doc[i]
           tt == TextTableValues(job.file_name, i - 1, page)
           chunk_counter == job.pos[i] + 1
       IN \E fault \in BOOLEAN :
          IF chunk_counter <= Len(tt)
          THEN (* await db.execute(INSERT ...) of a text or table chunk: an   *)
               (* exception leaves the task, gather and the async with, and  *)
               (* is caught by process_pdf_to_chunks, which returns None     *)
               IF fault
               THEN /\ job' = Idle
                    /\ ret' = Result(PDF, "utils.py", job.file_name, job.doc,
                                     "None", TRUE, i, job.txn)
               ELSE /\ job' = [job EXCEPT !.pos[i] = chunk_counter,
                                          !.txn = TxnInsert(@, <<tt[chunk_counter]>>)]
                    /\ ret' = ret
          ELSE (* _process_pdf_image: whatever fails is caught there          *)
               LET img == page.images[chunk_counter - Len(tt)] IN
               \E outcome \in IF HasClient(openai_api_key) THEN ServiceOutcomes
                              ELSE {"error"} :
                 /\ job' = [job EXCEPT
                      !.pos[i] = chunk_counter,
                      !.write_failed = @ \/ (fault /\ img.extractable),
                      !.txn = IF img.extractable /\ ~fault
                              THEN TxnInsert(@, << AsyncImageValue(job.file_name,
                                        i - 1, img, chunk_counter,
                                        openai_api_key, outcome) >>)
                              ELSE @]
                 /\ ret' = ret
    /\ Rollback
    /\ UNCHANGED openai_api_key

(* the gathered tasks are over: await db.commit()                          *)
async_commit ==
    /\ job.kind = "async"
    /\ \A i \in DOMAIN job.doc :
          job.pos[i] = AsyncSteps(job.file_name, i - 1, job.doc[i])
    /\ Commit(job.txn)
    /\ job' = Idle
    /\ ret' = Result(PDF, "utils.py", job.file_name, job.doc, "None",
                     job.write_failed, 0, job.txn)
    /\ UNCHANGED openai_api_key

(* main() of src/MarkDB/MarkDB.py after asyncio.run(process_pdf_to_chunks(  *)
(* file_path)): an exception shows st.error, a return the success toast.   *)
main_status(outcome) ==
    IF outcome = "raised" THEN "Erro ao processar arquivo"
    ELSE "PDF processado com sucesso!"

----------------------------------------------------------------------------
(* Image files *)

ImageFiles == { [bytes |-> "ABC", ocr_text |-> <<" ", "\n">>],
                [bytes |-> "xyz", ocr_text |-> <<"a", "b", " ", "1", "2", "3">>] }
ImageFileNames == {"i.png"}

(* src/MarkDB.py, process_image_to_chunks: one "imagem" record with the    *)
(* caption; without a client it gives up before reading the file.          *)
process_image_to_chunks_v1(file_name, img) ==
    /\ job = Idle
    /\ \E outcome \in ServiceOutcomes, fault \in BOOLEAN :
         LET d == generate_image_description(openai_api_key, outcome)
             image_description == IF d = None THEN Some(PLACEHOLDER) ELSE d
             image_meta == << "**Arquivo**: ", file_name, "\n**Tipo**: Imagem",
                              "\n**Descricao**: " >> \o FmtText(image_description)
             txn == TxnInsert(<<>>, << << file_name, Some(1), 1, image_meta,
                                        "imagem", DMY, image_description,
                                        Some(b64encode(img.bytes)) >> >>)
         IN  IF ~HasClient(openai_api_key)
             THEN /\ Rollback
                  /\ ret' = Result(IMAGE, "MarkDB.py", file_name, img, "False",
                                   FALSE, 0, <<>>)
             ELSE IF fault
             THEN /\ Rollback
                  /\ ret' = Result(IMAGE, "MarkDB.py", file_name, img, "False",
                                   TRUE, 1, <<>>)
             ELSE /\ Commit(txn)
                  /\ ret' = Result(IMAGE, "MarkDB.py", file_name, img, "True",
                                   FALSE, 0, txn)
    /\ UNCHANGED <<openai_api_key, job>>

(* src/MarkDB/process_img.py, process_image_to_chunks: the same text, but  *)
(* the module does "import datetime", so datetime.now() in the parameters  *)
(* of the INSERT raises AttributeError, which the except turns into False. *)
datetime_now(rev) ==
    IF rev \in {"process_img.py", "process_docx.py", "process_xlsx.py"}
    THEN "AttributeError" ELSE DMY

process_image_to_chunks_split(file_name, img) ==
    /\ job = Idle
    /\ ret' = Result(IMAGE, "process_img.py", file_name, img,
                     IF ~HasClient(openai_api_key) THEN "False"
                     ELSE IF datetime_now("process_img.py") = "AttributeError"
                     THEN "False" ELSE "True",
                     FALSE, 0, <<>>)
    /\ Rollback
    /\ UNCHANGED <<openai_api_key, job>>

(* src/MarkDB/utils.py, process_image_to_chunks: the text that OCR finds   *)
(* in the image, wrapped; no caption and no "imagem" record.               *)
process_image_to_chunks_ocr(file_name, img) ==
    /\ job = Idle
    /\ \E fault \in BOOLEAN :
         LET values == TextValues(file_name, None, Pieces(img.ocr_text), 1)
             txn == TxnInsert(<<>>, values)
         IN  IF fault /\ values # <<>>
             THEN /\ Rollback
                  /\ ret' = Result(IMAGE, "utils.py", file_name, img, "False",
                                   TRUE, 1, <<>>)
             ELSE /\ Commit(txn)
                  /\ ret' = Result(IMAGE, "utils.py", file_name, img, "True",
                                   FALSE, 0, txn)
    /\ UNCHANGED <<openai_api_key, job>>

----------------------------------------------------------------------------
(* Word and spreadsheet files.  A Word document is its paragraphs and the  *)
(* cell matrices of its tables; a workbook is its sheets, each with a name *)
(* and its rows of cells.                                                  *)

DOCX == "process_docx_to_chunks"
XLSX == "process_xlsx_to_chunks"

DOCX_MIXED == [paragraphs |-> << <<"a", "b", " ", "c", "d", "e">>, <<" ">>,
                                 <<"1", "2">> >>,
               tables |-> <<TABLE_HEADER_ONLY, TABLE_2x2>>]
DOCX_LINES == [paragraphs |-> << <<"a">>, <<"b">>, <<"c">>, <<"d">>, <<"e">>,
                                 <<"f">> >>,
               tables |-> <<>>]
DOCX_EMPTY == [paragraphs |-> <<>>, tables |-> <<>>]

DocxDocs == {DOCX_MIXED, DOCX_LINES, DOCX_EMPTY}
DocxFileNames == {"b.docx"}

SHEET_2x2 == [name |-> "S1", rows |-> TABLE_2x2]
SHEET_COLUMN == [name |-> "S2",
                 rows |-> << <<Some(<<"1">>)>>, <<None>>, <<Some(<<"2">>)>> >>]
SHEET_HEADER == [name |-> "S3", rows |-> TABLE_HEADER_ONLY]

Workbooks == { <<SHEET_2x2, SHEET_COLUMN>>, <<SHEET_HEADER>>, <<SHEET_HEADER, SHEET_2x2>> }
XlsxFileNames == {"c.xlsx"}

(* '\n'.join(full_text)                                                    *)
RECURSIVE JoinParagraphs(_)
JoinParagraphs(paragraphs) ==
    IF paragraphs = <<>> THEN <<>>
    ELSE IF Len(paragraphs) = 1 THEN Head(paragraphs)
    ELSE Head(paragraphs) \o <<"\n">> \o JoinParagraphs(Tail(paragraphs))

(* src/MarkDB.py, process_docx_to_chunks: the paragraphs joined and        *)
(* wrapped, each piece stored with page_number 1; the tables are not read. *)
DocxV1Values(file_name, doc) ==
    LET pieces == Pieces(JoinParagraphs(doc.paragraphs))
    IN  [ i \in 1..Len(pieces) |->
            << file_name, Some(1), i,
               Header(file_name, None, i) \o Strip(pieces[i]),
               detect_chunk_type(pieces[i]), DMY, None, None >> ]

process_docx_to_chunks_v1(file_name, doc) ==
    /\ job = Idle
    /\ \E fault \in BOOLEAN :
         LET values == DocxV1Values(file_name, doc)
             txn == TxnInsert(<<>>, values)
         IN  IF fault /\ values # <<>>
             THEN /\ Rollback
                  /\ ret' = Result(DOCX, "MarkDB.py", file_name, doc, "False",
                                   TRUE, 1, <<>>)
             ELSE /\ Commit(txn)
                  /\ ret' = Result(DOCX, "MarkDB.py", file_name, doc, "True",
                                   FALSE, 0, txn)
    /\ UNCHANGED <<openai_api_key, job>>

(* src/MarkDB/process_docx.py, process_docx_to_chunks: the same text, but  *)
(* the module does "import datetime" and calls datetime.now() before its   *)
(* try, so the AttributeError reaches the caller.                          *)
process_docx_to_chunks_split(file_name, doc) ==
    /\ job = Idle
    /\ IF datetime_now("process_docx.py") = "AttributeError"
       THEN /\ Rollback
            /\ ret' = Result(DOCX, "process_docx.py", file_name, doc, "raised",
                             FALSE, 0, <<>>)
       ELSE /\ Commit(TxnInsert(<<>>, DocxV1Values(file_name, doc)))
            /\ ret' = Result(DOCX, "process_docx.py", file_name, doc, "True",
                             FALSE, 0, TxnInsert(<<>>, DocxV1Values(file_name, doc)))
    /\ UNCHANGED <<openai_api_key, job>>

(* src/MarkDB/utils.py, process_docx_to_chunks: each paragraph stripped    *)
(* and wrapped on its own, then the tables; page_number is None.           *)
RECURSIVE ParagraphValues(_, _, _)
ParagraphValues(file_name, paragraphs, chunk_counter) ==
    IF paragraphs = <<>> THEN <<>>
    ELSE LET text == Strip(Head(paragraphs))
             values == IF text # <<>>
                       THEN TextValues(file_name, None, wrap(text, ChunkSize),
                                       chunk_counter)
                       ELSE <<>>
         IN  values \o ParagraphValues(file_name, Tail(paragraphs),
                                       chunk_counter + Len(values))

DocxAsyncValues(file_name, doc) ==
    LET p == ParagraphValues(file_name, doc.paragraphs, 1)
    IN  p \o TableValues(file_name, None, doc.tables, Len(p) + 1)

XlsxHeader(file_name, sheet, chunk_counter) ==
    << "**Arquivo**: ", file_name, "\n**Planilha**: ", sheet,
       "\n**Chunk**: ", IntStr(chunk_counter), "\n\n" >>

(* src/MarkDB.py, process_xlsx_to_chunks: one table per sheet, stored with *)
(* the number of the sheet as page_number and 1 as chunk_number.           *)
RECURSIVE XlsxV1Values(_, _, _)
XlsxV1Values(file_name, sheets, sheet_counter) ==
    IF sheets = <<>> THEN <<>>
    ELSE LET markdown_table == format_table(Head(sheets).rows)
         IN  (IF Head(sheets).rows # <<>> /\ markdown_table # <<>>
              THEN << << file_name, Some(sheet_counter), 1,
                         XlsxHeader(file_name, Head(sheets).name, sheet_counter)
                             \o markdown_table,
                         "tabela", DMY, None, None >> >>
              ELSE <<>>)
             \o XlsxV1Values(file_name, Tail(sheets), sheet_counter + 1)

process_xlsx_to_chunks_v1(file_name, wb) ==
    /\ job = Idle
    /\ \E fault \in BOOLEAN :
         LET values == XlsxV1Values(file_name, wb, 1)
             txn == TxnInsert(<<>>, values)
         IN  IF fault /\ values # <<>>
             THEN /\ Rollback
                  /\ ret' = Result(XLSX, "MarkDB.py", file_name, wb, "False",
                                   TRUE, 1, <<>>)
             ELSE /\ Commit(txn)
                  /\ ret' = Result(XLSX, "MarkDB.py", file_name, wb, "True",
                                   FALSE, 0, txn)
    /\ UNCHANGED <<openai_api_key, job>>

(* src/MarkDB/process_xlsx.py, process_xlsx_to_chunks: as process_docx.py, *)
(* datetime.now() raises before the try.                                   *)
process_xlsx_to_chunks_split(file_name, wb) ==
    /\ job = Idle
    /\ IF datetime_now("process_xlsx.py") = "AttributeError"
       THEN /\ Rollback
            /\ ret' = Result(XLSX, "process_xlsx.py", file_name, wb, "raised",
                             FALSE, 0, <<>>)
       ELSE /\ Commit(TxnInsert(<<>>, XlsxV1Values(file_name, wb, 1)))
            /\ ret' = Result(XLSX, "process_xlsx.py", file_name, wb, "True",
                             FALSE, 0, TxnInsert(<<>>, XlsxV1Values(file_name, wb, 1)))
    /\ UNCHANGED <<openai_api_key, job>>

(* src/MarkDB/utils.py, process_xlsx_to_chunks: one chunk per row that is  *)
(* not blank, numbered across the sheets; page_number is None.             *)
RowData(row) ==
    JoinCells([i \in DOMAIN row |-> IF row[i] = None THEN <<>> ELSE PyStr(row[i])],
              " | ")

SheetRows(wb) ==
    Flatten([s \in DOMAIN wb |->
               [r \in DOMAIN wb[s].rows |->
                  [sheet |-> wb[s].name, row_data |-> RowData(wb[s].rows[r])]]])

XlsxAsyncValues(file_name, wb) ==
    LET kept == SelectSeq(SheetRows(wb), LAMBDA x : Strip(x.row_data) # <<>>)
    IN  [ i \in 1..Len(kept) |->
            << file_name, None, i,
               XlsxHeader(file_name, kept[i].sheet, i) \o kept[i].row_data,
               "tabela", DMY, None, None >> ]

(* tasks.append(db.execute(...)) for each chunk, then asyncio.gather: the  *)
(* loop starts the tasks in the order of the list, each puts its INSERT on *)
(* the queue of the connection's thread and waits; the thread runs the     *)
(* queue in its order; with no task there is no commit.                    *)
Gather(op, file_name, doc, tasks) ==
    /\ job = Idle
    /\ IF tasks = <<>>
       THEN /\ job' = job
            /\ ret' = Result(op, "utils.py", file_name, doc, "None", FALSE, 0, <<>>)
       ELSE /\ job' = [kind |-> "gather", op |-> op, file_name |-> file_name,
                       doc |-> doc, tasks |-> tasks, started |-> 0,
                       tx |-> <<>>, txn |-> <<>>]
            /\ ret' = Running
    /\ UNCHANGED <<chunks, sqlite_sequence, openai_api_key>>

process_docx_to_chunks_async(file_name, doc) ==
    Gather(DOCX, file_name, doc, DocxAsyncValues(file_name, doc))

process_xlsx_to_chunks_async(file_name, wb) ==
    Gather(XLSX, file_name, wb, XlsxAsyncValues(file_name, wb))

(* the next task of the list runs to its await                             *)
gather_task_step ==
    /\ job.kind = "gather"
    /\ job.started < Len(job.tasks)
    /\ job' = [job EXCEPT !.started = @ + 1,
                          !.tx = Append(@, job.tasks[job.started + 1])]
    /\ ret' = ret
    /\ Rollback
    /\ UNCHANGED openai_api_key

(* a thread that takes the last INSERT of the queue                        *)
Dequeue_takes_the_last(tx) == << tx[Len(tx)], SubSeq(tx, 1, Len(tx) - 1) >>

(* the INSERT the thread runs next, and the queue without it               *)
Dequeue(tx) == << Head(tx), Tail(tx) >>

(* the connection's thread runs an INSERT; if it fails, gather raises, the *)
(* connection is closed without a commit and the except shows the error    *)
conn_thread_execute ==
    /\ job.kind = "gather"
    /\ job.tx # <<>>
    /\ \E fault \in BOOLEAN :
         IF fault
         THEN /\ job' = Idle
              /\ ret' = Result(job.op, "utils.py", job.file_name, job.doc,
                               "None", TRUE, 1, <<>>)
         ELSE /\ job' = [job EXCEPT !.tx = Dequeue(job.tx)[2],
                                    !.txn = TxnInsert(@, << Dequeue(job.tx)[1] >>)]
              /\ ret' = ret
    /\ Rollback
    /\ UNCHANGED openai_api_key

(* every task is over: await db.commit()                                   *)
gather_commit ==
    /\ job.kind = "gather"
    /\ job.started = Len(job.tasks) /\ job.tx = <<>>
    /\ Commit(job.txn)
    /\ job' = Idle
    /\ ret' = Result(job.op, "utils.py", job.file_name, job.doc, "None",
                     FALSE, 0, job.txn)
    /\ UNCHANGED openai_api_key

(* an image in which OCR reads six short lines                             *)
OcrImages == { [bytes |-> "ABC",
                ocr_text |-> <<"a", "\n", "b", "\n", "c", "\n", "d", "\n", "e",
                               "\n", "f", "\n">>] }

----------------------------------------------------------------------------
(* The program: what a session can do with the store *)

Init ==
    /\ chunks = <<>>
    /\ sqlite_sequence = 0
    /\ openai_api_key \in BOOLEAN
    /\ job = Idle
    /\ ret = [op |-> "MarkDB"]

AddFileNames == {"a.pdf", "b.docx"}
AddKeys == { <<"a.pdf", None, 2>>, <<"a.pdf", Some(1), 1>>, <<"a.pdf", Some(1), 2>>,
             <<"a.pdf", Some(2), 1>>, <<"b.docx", None, 1>> }
AddContents == { <<"c">> }
AddImageFields == { <<"texto", None, None>>,
                    <<"imagem", Some(DESCRIPTION), Some("QUJD")>>,
                    <<"imagem", Some(DESCRIPTION), None>> }

AddedRows == { i \in DOMAIN chunks : chunks[i].upload_time = ISO }

(* MarkDB.add_chunk: one INSERT, committed at once; returns c.lastrowid    *)
LastRowid(rows) == rows[Len(rows)].id

add_chunk(file_name, page_number, chunk_number, content, chunk_content, image_description, image_data) ==
    /\ job = Idle
    /\ LET rows == Insert(chunks, sqlite_sequence,
                          << file_name, page_number, chunk_number, content,
                             chunk_content, ISO, image_description, image_data >>)
       IN /\ chunks' = rows
          /\ sqlite_sequence' = MaxRowid(rows)
          /\ ret' = [op |-> "add_chunk", val |-> LastRowid(rows)]
    /\ UNCHANGED <<openai_api_key, job>>

export_all_chunks_to_md(file_name) ==
    /\ job = Idle
    /\ \E rows \in OrderBy(SelectFile(chunks, file_name)) :
          ret' = [op |-> "export_all_chunks_to_md", file_name |-> file_name,
                  val |-> ExportAll(file_name, rows)]
    /\ UNCHANGED <<chunks, sqlite_sequence, openai_api_key, job>>

----------------------------------------------------------------------------
(* Reading the store: MarkDB.search_chunks, MarkDB.get_all_chunks and      *)
(* export_chunk_to_md                                                      *)

(* the characters of a chunk_content tag                                   *)
TagText(tag) ==
    CASE tag = "texto"  -> <<"t", "e", "x", "t", "o">>
      [] tag = "tabela" -> <<"t", "a", "b", "e", "l", "a">>
      [] tag = "imagem" -> <<"i", "m", "a", "g", "e", "m">>
      [] tag = "codigo" -> <<"c", "o", "d", "i", "g", "o">>
      [] tag = "lista"  -> <<"l", "i", "s", "t", "a">>
      [] tag = "dados numericos" ->
            <<"d", "a", "d", "o", "s", " ", "n", "u", "m", "e", "r", "i", "c", "o", "s">>
      [] OTHER -> <<tag>>

(* LIKE compares the letters of ASCII without their case                   *)
UPPER == <<"A", "B", "C", "D", "E", "F", "G", "H", "I", "J", "K", "L", "M",
           "N", "O", "P", "Q", "R", "S", "T", "U", "V", "W", "X", "Y", "Z">>
LOWER == <<"a", "b", "c", "d", "e", "f", "g", "h", "i", "j", "k", "l", "m",
           "n", "o", "p", "q", "r", "s", "t", "u", "v", "w", "x", "y", "z">>
FoldOf == [c \in Range(UPPER) |-> LOWER[CHOOSE i \in DOMAIN UPPER : UPPER[i] = c]]
Fold(c) == IF c \in DOMAIN FoldOf THEN FoldOf[c] ELSE c

(* text LIKE pattern: % stands for any run of characters, _ for any one    *)
RECURSIVE Like(_, _)
Like(text, pattern) ==
    IF pattern = <<>> THEN text = <<>>
    ELSE IF Head(pattern) = "%"
    THEN \E k \in 0..Len(text) : Like(SubSeq(text, k + 1, Len(text)), Tail(pattern))
    ELSE /\ text # <<>>
         /\ Head(pattern) = "_" \/ Fold(Head(pattern)) = Fold(Head(text))
         /\ Like(Tail(text), Tail(pattern))

(* the first `limit` rows                                                  *)
Limit(rows, limit) == SubSeq(rows, 1, IF Len(rows) < limit THEN Len(rows) ELSE limit)

(* SELECT * FROM chunks WHERE chunk_content LIKE '%keyword%' LIMIT limit   *)
search_chunks(keyword, limit) ==
    /\ job = Idle
    /\ ret' = [op |-> "search_chunks", keyword |-> keyword, limit |-> limit,
               val |-> Limit(SelectSeq(chunks, LAMBDA r :
                           Like(TagText(r.chunk_content), <<"%">> \o keyword \o <<"%">>)),
                         limit)]
    /\ UNCHANGED <<chunks, sqlite_sequence, openai_api_key, job>>

(* if file_name: the rows of the file; else: all the rows                  *)
get_all_chunks(file_name) ==
    /\ job = Idle
    /\ ret' = [op |-> "get_all_chunks", file_name |-> file_name,
               val |-> IF Truthy(file_name) THEN SelectFile(chunks, file_name[1])
                       ELSE chunks]
    /\ UNCHANGED <<chunks, sqlite_sequence, openai_api_key, job>>

SelectId_without_where(rows, chunk_id) == rows

(* SELECT * FROM chunks WHERE id = ?; fetchone()                           *)
SelectId(rows, chunk_id) == SelectSeq(rows, LAMBDA r : r.id = chunk_id)

MetadataLines(row) ==
    << "# ", row.file_name, "\n\n",
       "**ID:** ", IntStr(row.id), "\n",
       "**Pagina:** " >> \o FmtInt(row.page_number) \o << "\n",
       "**Chunk:** ", IntStr(row.chunk_number), "\n",
       "**Tipo:** ", row.chunk_content, "\n",
       "**Data de upload:** ", row.upload_time, "\n\n" >>

DATA_URI == "data:image/png;base64,"

(* the content field written whatever the tag is                           *)
build_markdown_content_always_content(row) == MetadataLines(row) \o row.content

(* _build_markdown_content(row)                                            *)
build_markdown_content(row) ==
    MetadataLines(row)
    \o IF row.chunk_content = "imagem"
       THEN << "## Descricao da Imagem\n" >>
            \o FmtText(row.image_description) \o << "\n\n" >>
            \o << "![Imagem](", DATA_URI >>
            \o FmtText(row.image_data) \o << ")" >>
       ELSE row.content

ExportOne(chunk_id, rows) ==
    LET found == SelectId(rows, chunk_id)
    IN  IF found = <<>> THEN <<None, None>>
        ELSE << build_markdown_content(found[1]),
                <<"chunk_", IntStr(found[1].id), "_", found[1].file_name, ".md">> >>

export_chunk_to_md(chunk_id) ==
    /\ job = Idle
    /\ ret' = [op |-> "export_chunk_to_md", chunk_id |-> chunk_id,
               val |-> ExportOne(chunk_id, chunks)]
    /\ UNCHANGED <<chunks, sqlite_sequence, openai_api_key, job>>

Keywords == { <<"T">>, <<"_", "m">> }
Limits == {1, 10}
GetAllFileNames == { Some(""), Some("a.pdf") }
FAR_ID == 9999
ChunkIds == {1, 2, FAR_ID}

Read ==
    \/ \E keyword \in Keywords, limit \in Limits : search_chunks(keyword, limit)
    \/ \E f \in GetAllFileNames : get_all_chunks(f)
    \/ \E chunk_id \in ChunkIds : export_chunk_to_md(chunk_id)

AllFileNames == PdfFileNames \cup ImageFileNames \cup AddFileNames

Extract ==
    \/ \E f \in PdfFileNames, doc \in PdfDocs :
          Fits /\ process_pdf_to_chunks_v1(f, doc)
    \/ v1_page
    \/ v1_commit
    \/ \E f \in PdfFileNames, doc \in PdfDocs :
          Fits /\ process_pdf_to_chunks(f, doc)
    \/ loop_page
    \/ process_pdf_commit
    \/ \E f \in PdfFileNames, doc \in PdfDocs :
          Fits /\ process_pdf_to_chunks_async(f, doc)
    \/ \E i \in 1..2 : async_page_step(i)
    \/ async_commit
    \/ \E f \in ImageFileNames, img \in ImageFiles :
          Fits /\ process_image_to_chunks_v1(f, img)
    \/ \E f \in ImageFileNames, img \in ImageFiles :
          Fits /\ process_image_to_chunks_split(f, img)
    \/ \E f \in ImageFileNames, img \in ImageFiles :
          Fits /\ process_image_to_chunks_ocr(f, img)

(* uploads, with a direct insert now and then                              *)
NextIngest ==
    \/ Extract
    \/ \E f \in AllFileNames : export_all_chunks_to_md(f)
    \/ Read
    \/ /\ Cardinality(AddedRows) < MaxAddIngest
       /\ add_chunk("b.docx", None, 1, <<"c">>, "texto", None, None)

(* the store used through the MarkDB class and the export                  *)
Next ==
    \/ \E k \in AddKeys, c \in AddContents, t \in AddImageFields :
          /\ Cardinality(AddedRows) < MaxAdd
          /\ add_chunk(k[1], k[2], k[3], c, t[1], t[2], t[3])
    \/ \E f \in AllFileNames : export_all_chunks_to_md(f)

(* one ingestion of the large PDF, whose pages go to the pool              *)
NextPool ==
    \/ ret.op = "MarkDB" /\ \E f \in PdfFileNames : process_pdf_to_chunks(f, LargePdf)
    \/ \E t \in Workers : worker_process_page(t)
    \/ \E t \in Workers : worker_executemany(t)
    \/ process_pdf_commit

vars == <<chunks, sqlite_sequence, openai_api_key, job, ret>>

Spec == Init /\ [][Next]_vars
SpecIngest == Init /\ [][NextIngest]_vars
SpecPool == Init /\ [][NextPool]_vars

(* uploads of Word and spreadsheet files, of PDFs through the gathered     *)
(* tasks of utils.py and of images through OCR                             *)
NextOffice ==
    \/ \E f \in DocxFileNames, doc \in DocxDocs :
          Fits /\ process_docx_to_chunks_v1(f, doc)
    \/ \E f \in DocxFileNames, doc \in DocxDocs :
          Fits /\ process_docx_to_chunks_split(f, doc)
    \/ \E f \in DocxFileNames, doc \in DocxDocs :
          Fits /\ process_docx_to_chunks_async(f, doc)
    \/ \E f \in XlsxFileNames, wb \in Workbooks :
          Fits /\ process_xlsx_to_chunks_v1(f, wb)
    \/ \E f \in XlsxFileNames, wb \in Workbooks :
          Fits /\ process_xlsx_to_chunks_split(f, wb)
    \/ \E f \in XlsxFileNames, wb \in Workbooks :
          Fits /\ process_xlsx_to_chunks_async(f, wb)
    \/ gather_task_step
    \/ conn_thread_execute
    \/ gather_commit
    \/ \E f \in PdfFileNames, doc \in PdfDocs :
          Fits /\ process_pdf_to_chunks_async(f, doc)
    \/ \E i \in 1..2 : async_page_step(i)
    \/ async_commit
    \/ \E f \in ImageFileNames, img \in OcrImages :
          Fits /\ process_image_to_chunks_ocr(f, img)

SpecOffice == Init /\ [][NextOffice]_vars

----------------------------------------------------------------------------
(* Properties of the export of a file *)

(* the ids of the sections of a Markdown text, in the order of the text:   *)
(* the token that follows each "**ID:** "                                  *)
SectionIds(md) ==
    LET at == SelectSeq([i \in 1..Len(md) |-> i],
                        LAMBDA i : md[i] = "**ID:** " /\ i < Len(md))
    IN  [k \in 1..Len(at) |-> md[at[k] + 1]]

(* the stored record whose id is printed as `str`                          *)
RowOfId(str) == CHOOSE r \in Range(chunks) : IntStr(r.id) = str

(* (page_number, chunk_number) of r is not above that of s; two records    *)
(* are compared by page where both have one, by chunk where the pages are  *)
(* equal or both absent                                                    *)
Ascending(r, s) ==
    IF r.page_number # None /\ s.page_number # None
    THEN \/ r.page_number[1] < s.page_number[1]
         \/ r.page_number[1] = s.page_number[1] /\ r.chunk_number <= s.chunk_number
    ELSE (r.page_number = None /\ s.page_number = None)
            => r.chunk_number <= s.chunk_number

Exported == ret.op = "export_all_chunks_to_md"

(* C1: whenever export_all_chunks_to_md(file_name) has just been called   *)
(* for a file that has at least one record, its text has exactly one       *)
(* section for each stored record of that file, none for a record of       *)
(* another file, and the sections follow one another in ascending          *)
(* (page_number, chunk_number) order.                                      *)
C1_ExportAllSectionsInOrder ==
    (Exported /\ \E r \in Range(chunks) : r.file_name = ret.file_name) =>
        LET md == ret.val[1]
            ids == SectionIds(md)
        IN  /\ md # None
            /\ \A r \in Range(chunks) :
                  Cardinality({k \in DOMAIN ids : ids[k] = IntStr(r.id)})
                     = IF r.file_name = ret.file_name THEN 1 ELSE 0
            /\ \A k \in DOMAIN ids : \E r \in Range(chunks) : IntStr(r.id) = ids[k]
            /\ \A k \in 1..(Len(ids) - 1) :
                  Ascending(RowOfId(ids[k]), RowOfId(ids[k + 1]))

(* an export of a.pdf whose records were inserted against the order, with  *)
(* a record of another file between them                                   *)
C1_Witness ==
    /\ Exported /\ ret.file_name = "a.pdf"
    /\ Len(chunks) = 3
    /\ chunks[1].file_name = "a.pdf" /\ chunks[1].page_number = Some(2)
    /\ chunks[2].file_name = "b.docx"
    /\ chunks[3].file_name = "a.pdf" /\ chunks[3].page_number = Some(1)
    /\ Len(SectionIds(ret.val[1])) = 2

(* the records of the file that was exported                               *)
ExportedRows == { r \in Range(chunks) : r.file_name = ret.file_name }

(* no two records of the exported file share (page_number, chunk_number)   *)
DistinctKeys ==
    \A r, s \in ExportedRows :
        (r.page_number = s.page_number /\ r.chunk_number = s.chunk_number) => r = s

StrictlyAscending(r, s) ==
    Ascending(r, s)
    /\ ~(r.page_number = s.page_number /\ r.chunk_number = s.chunk_number)

SectionsStrictlyAscending ==
    LET ids == SectionIds(ret.val[1])
    IN  \A k \in 1..(Len(ids) - 1) :
           StrictlyAscending(RowOfId(ids[k]), RowOfId(ids[k + 1]))

RoundTrip == Exported /\ ExportedRows # {} /\ DistinctKeys

----------------------------------------------------------------------------
(* Properties of the stored records *)

(* C3: in every store the uploads and add_chunk can produce, each record   *)
(* has image_description and image_data both set or both null.             *)
C3_DescriptionAndDataTogether ==
    \A r \in Range(chunks) : (r.image_description = None) <=> (r.image_data = None)

(* utils.process_pdf_to_chunks has returned and a record of an image it    *)
(* stored has its data and no description                                  *)
C3_Witness ==
    /\ ret.op = PDF /\ ret.rev = "utils.py" /\ ret.outcome = "None"
    /\ \E r \in Range(chunks) :
          /\ r.chunk_content = "imagem"
          /\ r.image_description = None
          /\ r.image_data # None

(* what the service can answer, and the texts that stand for no answer     *)
ServiceAnswers == {DESCRIPTION, ""}
Placeholders == {PLACEHOLDER, PLACEHOLDER_NO_API}

(* C8: every stored record whose chunk_content is "imagem" has an          *)
(* image_description that is not null and is the answer the service gave   *)
(* or a placeholder text.                                                  *)
C8_ImagemHasDescriptionOrPlaceholder ==
    \A r \in Range(chunks) :
        r.chunk_content = "imagem" =>
            /\ r.image_description # None
            /\ r.image_description[1] \in ServiceAnswers \cup Placeholders

(* a PDF went through utils.process_pdf_to_chunks while the service was    *)
(* failing, and its image is stored without any description                *)
C8_Witness ==
    /\ openai_api_key
    /\ ret.op = PDF /\ ret.rev = "utils.py"
    /\ \E r \in Range(ret.inserted) :
          r \in Range(chunks) /\ r.chunk_content = "imagem" /\ r.image_description = None

----------------------------------------------------------------------------
(* Properties of a failed ingestion *)

(* C6: when the ingestion of a PDF has failed at a page k > 1, the chunks  *)
(* it had inserted for the pages before k are in the store.                *)
C6_EarlierPagesStayCommitted ==
    (ret.op = PDF /\ ret.failed_page > 1) =>
        \A r \in Range(ret.inserted) : r \in Range(chunks)

(* process_pdf.py has raised at page 2 after it had inserted the chunks of *)
(* page 1, and the store holds none of them                                *)
C6_Witness ==
    /\ ret.op = PDF /\ ret.rev = "process_pdf.py" /\ ret.outcome = "raised"
    /\ ret.failed_page = 2
    /\ \E r \in Range(ret.inserted) : r.page_number = Some(1)
    /\ chunks = <<>>

(* the caller of an extractor is told of a failure                         *)
ReportsFailure == ret.outcome \in {"raised", "False"}

(* C7: an extractor in which a write to the store has failed ends by       *)
(* raising or by returning False, never as it ends after a success.        *)
C7_WriteFailureReachesCaller ==
    (ret.op \in {PDF, IMAGE} /\ ret.write_failed) => ReportsFailure

(* an INSERT of utils.process_pdf_to_chunks has failed, the function has   *)
(* returned None and main() shows the success message                      *)
C7_Witness ==
    /\ ret.op = PDF /\ ret.rev = "utils.py" /\ ret.write_failed
    /\ ret.outcome = "None"
    /\ main_status(ret.outcome) = "PDF processado com sucesso!"

(* C9: without a credential, and with no failing write, the extractor of   *)
(* an image file returns True and has inserted a record that is in the     *)
(* store, tagged "imagem", with the placeholder as its description and the *)
(* image as its data.                                                      *)
C9_ImageWithoutCredentialSucceeds ==
    (ret.op = IMAGE /\ ~HasClient(openai_api_key) /\ ~ret.write_failed) =>
        /\ ret.outcome = "True"
        /\ \E r \in Range(ret.inserted) :
              /\ r \in Range(chunks)
              /\ r.chunk_content = "imagem"
              /\ r.image_description = Some(PLACEHOLDER)
              /\ r.image_data # None

(* without a credential src/MarkDB.py has returned False for an image file *)
(* and has inserted nothing                                                *)
C9_Witness ==
    /\ ~HasClient(openai_api_key)
    /\ ret.op = IMAGE /\ ret.rev = "MarkDB.py" /\ ret.outcome = "False"
    /\ ~ret.write_failed
    /\ ret.inserted = <<>> /\ chunks = <<>>

----------------------------------------------------------------------------
(* Properties of the ids *)

(* C10: the ids of the stored records are pairwise distinct and grow in    *)
(* the order of insertion, whether an upload or add_chunk inserted them,   *)
(* and add_chunk returns the id of the record it has just inserted.        *)
C10_IdsIncreaseAndAddChunkReturnsId ==
    /\ \A i, j \in DOMAIN chunks : i < j => chunks[i].id < chunks[j].id
    /\ ret.op = "add_chunk" =>
          /\ chunks # <<>>
          /\ chunks[Len(chunks)].upload_time = ISO
          /\ ret.val = chunks[Len(chunks)].id

(* add_chunk has returned the id of a record it inserted after the records *)
(* of an upload                                                            *)
C10_Witness ==
    /\ ret.op = "add_chunk"
    /\ Len(chunks) >= 3
    /\ chunks[1].upload_time = DMY
    /\ ret.val = Len(chunks)

----------------------------------------------------------------------------
(* Properties of the thread pool of process_pdf.py *)

(* (page_number, chunk_number, content, chunk_content) of a record         *)
Stored(r) == << r.page_number, r.chunk_number, r.content, r.chunk_content >>
StoredOfValue(v) == << v[2], v[3], v[4], v[5] >>

(* what the pages 1..n of doc give when process_page handles them one      *)
(* after another: one set of records for each way the captioning service   *)
(* can answer                                                              *)
RECURSIVE Sequentially(_, _, _, _)
Sequentially(file_name, doc, n, key) ==
    IF n = 0 THEN { {} }
    ELSE { before \cup { StoredOfValue(v) : v \in Range(process_page(file_name, n - 1,
                                                doc[n], outcomes, key)) } :
             before \in Sequentially(file_name, doc, n - 1, key),
             outcomes \in Outcomes(doc[n], key) }

PoolReturned ==
    ret.op = PDF /\ ret.rev = "process_pdf.py" /\ Len(ret.doc) > POOL_THRESHOLD

(* C4: when process_pdf_to_chunks has returned for a PDF of more than 10   *)
(* pages, the store holds the records that the same pages give when they   *)
(* are processed one after another, each once.                             *)
C4_PoolStoresWhatTheLoopStores ==
    PoolReturned =>
        /\ { Stored(r) : r \in Range(chunks) }
              \in Sequentially(ret.file_name, ret.doc, Len(ret.doc), openai_api_key)
        /\ \A i, j \in DOMAIN chunks : Stored(chunks[i]) = Stored(chunks[j]) => i = j

(* the pool is done with a PDF whose pages have text, tables and an image, *)
(* and the store is empty                                                  *)
C4_Witness ==
    /\ PoolReturned /\ ret.outcome = "None"
    /\ chunks = <<>>
    /\ {} \notin Sequentially(ret.file_name, ret.doc, Len(ret.doc), openai_api_key)

(* C5: no two workers of the pool are at the same time in a write on the   *)
(* connection the pages share.                                             *)
C5_OneWriterAtATime ==
    job.kind = "pool" =>
        \A t, u \in Workers :
            (job.w[t].pc = "executemany" /\ job.w[u].pc = "executemany") => t = u

(* all the workers are in executemany on the one cursor, each with the     *)
(* rows of another page                                                    *)
C5_Witness ==
    /\ job.kind = "pool"
    /\ \A t \in Workers : job.w[t].pc = "executemany"
    /\ \A t, u \in Workers : job.w[t].page_index = job.w[u].page_index => t = u

----------------------------------------------------------------------------
(* Frame of the operations *)

(* C11: no step of add_chunk, of an extractor, of search_chunks, of        *)
(* get_all_chunks, of export_chunk_to_md or of export_all_chunks_to_md     *)
(* changes or removes a record the store holds: each record is in the next *)
(* state where it was, with the same fields.                               *)
C11_RecordsAreImmutable ==
    [][\A i \in DOMAIN chunks : i \in DOMAIN chunks' /\ chunks'[i] = chunks[i]]_vars

(* an upload and add_chunk have both inserted, one after the other, and a  *)
(* search over the store was the last call                                 *)
C11_Witness ==
    /\ ret.op = "search_chunks" /\ ret.val # <<>>
    /\ Len(chunks) >= 3
    /\ chunks[1].upload_time = ISO
    /\ chunks[2].upload_time = DMY

----------------------------------------------------------------------------
(* Keys of the records *)

Key(r) == << r.file_name, r.page_number, r.chunk_number >>

(* C12: in every state of the store no two records share the same          *)
(* (file_name, page_number, chunk_number), also after the same file was    *)
(* ingested more than once.                                                *)
C12_NoTwoRecordsShareAKey ==
    \A i, j \in DOMAIN chunks : i # j => Key(chunks[i]) # Key(chunks[j])

(* the same file ingested twice: two records written by extractors, with   *)
(* two ids and one key                                                     *)
C12_Witness ==
    \E i, j \in DOMAIN chunks :
        /\ chunks[i].id < chunks[j].id
        /\ Key(chunks[i]) = Key(chunks[j])
        /\ chunks[i].upload_time = DMY
        /\ chunks[j].upload_time = DMY

----------------------------------------------------------------------------
(* Exports of what the store does not hold *)

Absent == <<None, None>>

HoldsId(chunk_id) == \E r \in Range(chunks) : r.id = chunk_id
HoldsFile(file_name) == \E r \in Range(chunks) : r.file_name = file_name

(* C13: export_chunk_to_md(id) returns (None, None), and does not raise,   *)
(* for every id that no record of the store has, the store being empty or  *)
(* not; export_all_chunks_to_md(file_name) returns (None, None), and does  *)
(* not raise, when no record has that file_name.                           *)
C13_AbsentExportsReturnNone ==
    /\ (ret.op = "export_chunk_to_md" /\ ~HoldsId(ret.chunk_id)) =>
           ret.val = Absent
    /\ (ret.op = "export_all_chunks_to_md" /\ ~HoldsFile(ret.file_name)) =>
           ret.val = Absent

(* export_chunk_to_md(9999) has answered on a store that holds records of  *)
(* other ids                                                               *)
C13_Witness ==
    /\ ret.op = "export_chunk_to_md"
    /\ ret.chunk_id = FAR_ID
    /\ chunks # <<>>
    /\ ~HoldsId(FAR_ID)
    /\ ret.val = Absent

----------------------------------------------------------------------------
(* The export of one image record *)

RowWithId(chunk_id) == CHOOSE r \in Range(chunks) : r.id = chunk_id

(* C14: for every record tagged "imagem" whose image_data is B, the text   *)
(* export_chunk_to_md(id) returns contains "data:image/png;base64,"        *)
(* immediately followed by exactly B, and does not contain the content     *)
(* field of the record.                                                    *)
C14_ImageExportCarriesTheData ==
    (/\ ret.op = "export_chunk_to_md"
     /\ HoldsId(ret.chunk_id)
     /\ RowWithId(ret.chunk_id).chunk_content = "imagem"
     /\ RowWithId(ret.chunk_id).image_data # None) =>
        LET row == RowWithId(ret.chunk_id)
            md == ret.val[1]
        IN  /\ ret.val # Absent
            /\ Contains(<< DATA_URI, row.image_data[1], ")" >>, md)
            /\ Occurrences(<< DATA_URI >>, md) = 1
            /\ ~Contains(row.content, md)

(* an image record extracted from an upload has been exported by its id    *)
C14_Witness ==
    /\ ret.op = "export_chunk_to_md"
    /\ HoldsId(ret.chunk_id)
    /\ RowWithId(ret.chunk_id).chunk_content = "imagem"
    /\ RowWithId(ret.chunk_id).image_data = Some(b64encode("xyz"))
    /\ RowWithId(ret.chunk_id).content # <<>>
    /\ ret.val # Absent

----------------------------------------------------------------------------
(* detect_chunk_type on its own: the chunk is chosen at the start and the  *)
(* function is applied to it.                                              *)

MaxChunkLen == 6

Repeat(c, n) == [i \in 1..n |-> c]

ChunkChars == {"a", "1", "\n", BACKTICK}

ShortChunks == UNION { [1..n -> ChunkChars] : n \in 0..MaxChunkLen }

(* chunks with a line of 99 or of 100 characters, with 5 or 6 lines, with  *)
(* and without a digit and a fence                                         *)
LongChunks ==
    { Repeat(c, n) \o Repeat("\n", k) \o tail :
        c \in {"a", "1"},
        n \in {LISTA_LINE_LEN - 1, LISTA_LINE_LEN},
        k \in {LISTA_MIN_LINES - 1, LISTA_MIN_LINES},
        tail \in { <<>>, <<"a", "1">>, <<BACKTICK, BACKTICK, BACKTICK>> } }

DetectChunks == ShortChunks \cup LongChunks

Call(op, arg) == [kind |-> "call", op |-> op, arg |-> arg]

InitDetect ==
    /\ chunks = <<>>
    /\ sqlite_sequence = 0
    /\ openai_api_key = FALSE
    /\ job \in { Call("detect_chunk_type", c) : c \in DetectChunks }
    /\ ret = [op |-> "MarkDB"]

call_detect_chunk_type ==
    /\ job.kind = "call" /\ job.op = "detect_chunk_type"
    /\ ret.op = "MarkDB"
    /\ ret' = [op |-> "detect_chunk_type", chunk |-> job.arg,
               val |-> detect_chunk_type(job.arg)]
    /\ UNCHANGED <<chunks, sqlite_sequence, openai_api_key, job>>

NextDetect == call_detect_chunk_type

SpecDetect == InitDetect /\ [][NextDetect]_vars

(* the claim's words, read on the chunk itself *)
HasFence(t) ==
    \E i \in 1..(Len(t) - 2) :
        t[i] = BACKTICK /\ t[i + 1] = BACKTICK /\ t[i + 2] = BACKTICK
HasDigit(t) == \E i \in DOMAIN t : \E d \in DOMAIN Digits : t[i] = Digits[d]
Letters(t) == { i \in DOMAIN t : IsAlpha(t[i]) }
LineBreaks(t) == { i \in DOMAIN t : t[i] = "\n" }
(* a stretch of n characters without a line break lies within one line     *)
HasLineOf(t, n) ==
    \E i \in 1..(Len(t) - n + 1) : LineBreaks(t) \cap (i..(i + n - 1)) = {}

Detected == ret.op = "detect_chunk_type"

(* C15: detect_chunk_type returns one tag, by strict priority: "codigo"    *)
(* whenever the text holds a triple backtick, whatever else it holds;      *)
(* otherwise "dados numericos" when it has at least one digit and fewer    *)
(* alphabetic characters than half of all its characters; otherwise        *)
(* "lista" when it has more than 5 lines, each under 100 characters;       *)
(* otherwise "texto".                                                      *)
C15_TagByStrictPriority ==
    Detected =>
        LET t == ret.chunk
            numeric == HasDigit(t) /\ 2 * Cardinality(Letters(t)) < Len(t)
            list == /\ Cardinality(LineBreaks(t)) + 1 > 5
                    /\ ~HasLineOf(t, 100)
        IN  /\ HasFence(t) => ret.val = "codigo"
            /\ (~HasFence(t) /\ numeric) => ret.val = "dados numericos"
            /\ (~HasFence(t) /\ ~numeric /\ list) => ret.val = "lista"
            /\ (~HasFence(t) /\ ~numeric /\ ~list) => ret.val = "texto"

(* a chunk with a fence that also passes the test of the numbers and the   *)
(* test of the list has been tagged as code                                *)
C15_Witness ==
    /\ Detected
    /\ HasFence(ret.chunk)
    /\ HasDigit(ret.chunk) /\ 2 * Cardinality(Letters(ret.chunk)) < Len(ret.chunk)
    /\ Cardinality(LineBreaks(ret.chunk)) + 1 > 5
    /\ ret.val = "codigo"

(* C16: detect_chunk_type of the empty string does not raise (it does not  *)
(* divide by the zero length) and returns "texto".                         *)
C16_EmptyChunkIsTexto ==
    (Detected /\ ret.chunk = <<>>) => ret.val = "texto"

(* the empty string has been classified                                    *)
C16_Witness ==
    /\ Detected
    /\ Len(ret.chunk) = 0
    /\ ret.val \in {"texto", "ZeroDivisionError"}

----------------------------------------------------------------------------
(* textwrap.wrap on its own: the text and the chunk size are chosen at the *)
(* start and the function is applied to them.                              *)

MaxText == 7

WrapChars == {"a", "b", "-", " "}

WrapTexts ==
    UNION { [1..n -> WrapChars] : n \in 0..MaxText }
    \cup { <<"a", "b", "\n", "a">>, <<"\n", "a", " ", "\n", "b", "\n">> }

(* st.session_state.CHUNK_SIZE, scaled                                     *)
WrapWidths == {ChunkSize, ChunkSize + 1}

InitWrap ==
    /\ chunks = <<>>
    /\ sqlite_sequence = 0
    /\ openai_api_key = FALSE
    /\ job \in { Call("wrap", [text |-> t, width |-> w]) :
                   t \in WrapTexts, w \in WrapWidths }
    /\ ret = [op |-> "MarkDB"]

call_wrap ==
    /\ job.kind = "call" /\ job.op = "wrap"
    /\ ret.op = "MarkDB"
    /\ ret' = [op |-> "wrap", text |-> job.arg.text, width |-> job.arg.width,
               val |-> wrap(job.arg.text, job.arg.width)]
    /\ UNCHANGED <<chunks, sqlite_sequence, openai_api_key, job>>

NextWrap == call_wrap

SpecWrap == InitWrap /\ [][NextWrap]_vars

Wrapped == ret.op = "wrap"

(* str.split(): the words of a text, in order                              *)
RECURSIVE WordsFrom(_, _)
WordsFrom(t, cur) ==
    IF t = <<>> THEN (IF cur = <<>> THEN <<>> ELSE <<cur>>)
    ELSE IF IsSpace(Head(t))
         THEN (IF cur = <<>> THEN <<>> ELSE <<cur>>) \o WordsFrom(Tail(t), <<>>)
    ELSE WordsFrom(Tail(t), Append(cur, Head(t)))

Words(t) == WordsFrom(t, <<>>)

(* " ".join(pieces)                                                        *)
RECURSIVE JoinPieces(_)
JoinPieces(pieces) ==
    IF pieces = <<>> THEN <<>>
    ELSE IF Len(pieces) = 1 THEN Head(pieces)
    ELSE Head(pieces) \o <<" ">> \o JoinPieces(Tail(pieces))

(* C17: every piece that wrapping a text at the chunk size produces has at *)
(* most that many characters, for every text, one that holds a single word *)
(* longer than the chunk size included.                                    *)
C17_PiecesWithinChunkSize ==
    Wrapped => \A i \in DOMAIN ret.val : Len(ret.val[i]) <= ret.width

(* a text that is one word longer than the chunk size has been wrapped     *)
C17_Witness ==
    /\ Wrapped
    /\ Len(Words(ret.text)) = 1
    /\ Len(Words(ret.text)[1]) > ret.width
    /\ Len(ret.val) >= 2

Breakable(word, width) == Len(word) > width \/ \E i \in DOMAIN word : word[i] = "-"

----------------------------------------------------------------------------
(* format_table on its own: the matrix is chosen at the start and the      *)
(* function is applied to it.                                              *)

MaxRows == 3
MaxCols == 2

(* a cell of table.extract(): no text, a word, two lines of text           *)
Cells == { None, Some(<<"h">>), Some(<<"a", "\n", "b">>) }

Matrices ==
    UNION { [1..r -> [1..c -> Cells]] : r \in 0..MaxRows, c \in 0..MaxCols }

InitTable ==
    /\ chunks = <<>>
    /\ sqlite_sequence = 0
    /\ openai_api_key = FALSE
    /\ job \in { Call("format_table", m) : m \in Matrices }
    /\ ret = [op |-> "MarkDB"]

call_format_table ==
    /\ job.kind = "call" /\ job.op = "format_table"
    /\ ret.op = "MarkDB"
    /\ ret' = [op |-> "format_table", matrix |-> job.arg,
               val |-> format_table(job.arg)]
    /\ UNCHANGED <<chunks, sqlite_sequence, openai_api_key, job>>

NextTable == call_format_table

SpecTable == InitTable /\ [][NextTable]_vars

Formatted == ret.op = "format_table"

(* C19: format_table returns the empty string for the empty matrix and for *)
(* every matrix of fewer than 2 rows (a header alone), and a string that   *)
(* is not empty for every matrix of 2 rows or more.                        *)
C19_EmptyBelowTwoRows ==
    Formatted =>
        /\ Len(ret.matrix) < 2 => ret.val = <<>>
        /\ Len(ret.matrix) >= 2 => ret.val # <<>>

(* a matrix that is a header alone, with cells, has given the empty string *)
C19_Witness ==
    /\ Formatted
    /\ Len(ret.matrix) = 1
    /\ Len(ret.matrix[1]) = MaxCols
    /\ ret.val = <<>>

(* the lines of a text, each without its line break                        *)
RECURSIVE LinesFrom(_, _)
LinesFrom(t, cur) ==
    IF t = <<>> THEN (IF cur = <<>> THEN <<>> ELSE <<cur>>)
    ELSE IF Head(t) = "\n" THEN <<cur>> \o LinesFrom(Tail(t), <<>>)
    ELSE LinesFrom(Tail(t), Append(cur, Head(t)))

LinesOf(t) == LinesFrom(t, <<>>)

(* "| x | y |" for the cells x, y, each printed on its own                 *)
PipeRow(cells) ==
    <<"| ">>
    \o Flatten([i \in DOMAIN cells |->
                  IF i = 1 THEN cells[i] ELSE <<" | ">> \o cells[i]])
    \o <<" |">>

(* C20: for a matrix of r >= 2 rows whose header has c cells, format_table *)
(* emits exactly r + 1 lines: the header row, then a separator row of      *)
(* exactly c cells, each "---", then one line for each remaining row of    *)
(* the matrix in the order of the matrix, each cell printed on its own.    *)
C20_OneLinePerRow ==
    (Formatted /\ Len(ret.matrix) >= 2) =>
        LET r == Len(ret.matrix)
            c == Len(ret.matrix[1])
            lines == LinesOf(ret.val)
        IN  /\ Len(lines) = r + 1
            /\ lines[1] = PipeRow(CellStrs(ret.matrix[1]))
            /\ lines[2] = PipeRow([i \in 1..c |-> <<"---">>])
            /\ \A k \in 2..r : lines[k + 1] = PipeRow(CellStrs(ret.matrix[k]))

(* a matrix of 2 rows with a cell of two lines has given 4 lines           *)
C20_Witness ==
    /\ Formatted
    /\ Len(ret.matrix) = 2
    /\ \E i \in DOMAIN ret.matrix[2] : ret.matrix[2][i] = Some(<<"a", "\n", "b">>)
    /\ \A i \in DOMAIN ret.matrix[1] : ret.matrix[1][i] = Some(<<"h">>)
    /\ Len(LinesOf(ret.val)) > Len(ret.matrix) + 1

----------------------------------------------------------------------------
(* The search *)

Searched == ret.op = "search_chunks"

(* keyword is a substring of the tag, the case of the letters set aside    *)
TagHolds(tag, keyword) ==
    \E k \in 0..(Len(TagText(tag)) - Len(keyword)) :
        \A i \in DOMAIN keyword : Fold(TagText(tag)[k + i]) = Fold(keyword[i])

Eligible == SelectSeq(chunks, LAMBDA r : TagHolds(r.chunk_content, ret.keyword))

(* C21: search_chunks(keyword, limit) returns at most limit records, and a *)
(* record is eligible exactly when its chunk_content tag holds keyword as  *)
(* a substring whatever the case of the letters; the content has no part   *)
(* in the match, and the characters % and _ of a keyword are matched as    *)
(* they are, like any other substring.                                     *)
C21_SearchMatchesTheTagLiterally ==
    Searched =>
        /\ Len(ret.val) <= ret.limit
        /\ ret.val = Limit(Eligible, ret.limit)

(* a keyword with _ has found a record whose tag holds no _                *)
C21_Witness ==
    /\ Searched
    /\ ret.keyword = <<"_", "m">>
    /\ \E i \in DOMAIN ret.val : ~TagHolds(ret.val[i].chunk_content, ret.keyword)

----------------------------------------------------------------------------
(* The numbering within a page *)

PdfRun == ret.op = PDF

(* 1 for a text chunk, 2 for a table, 3 for an image                       *)
Kind(r) == IF r.chunk_content = "tabela" THEN 2
           ELSE IF r.chunk_content = "imagem" THEN 3 ELSE 1

(* C22: within one page of a PDF the counter starts at 1 and the records   *)
(* are numbered text chunks first, then tables, then images: every text    *)
(* chunk of a page has a smaller chunk_number than every table of the      *)
(* page, and every table a smaller one than every image of the page.       *)
C22_TextThenTablesThenImages ==
    PdfRun =>
        \A r, s \in Range(ret.inserted) :
            r.page_number = s.page_number =>
                /\ r.chunk_number >= 1
                /\ Kind(r) < Kind(s) => r.chunk_number < s.chunk_number
                /\ Kind(r) = 1 => \E f \in Range(ret.inserted) :
                       /\ f.page_number = r.page_number
                       /\ f.chunk_number = 1 /\ Kind(f) = 1

(* a run has stored a text chunk, a table and an image of one page         *)
C22_Witness ==
    /\ PdfRun
    /\ \E r, s, t \in Range(ret.inserted) :
          /\ {r, s, t} \subseteq Range(chunks)
          /\ r.page_number = s.page_number /\ s.page_number = t.page_number
          /\ Kind(r) = 1 /\ Kind(s) = 2 /\ Kind(t) = 3
          /\ r.chunk_number < s.chunk_number /\ s.chunk_number < t.chunk_number

----------------------------------------------------------------------------
(* The order of the inserts of one ingestion *)

Ingested == ret.op \in {PDF, DOCX, XLSX, IMAGE}

(* C23: for the records of one ingestion that share a page (for Word and   *)
(* spreadsheet files: the one group whose page is null), the order of      *)
(* insertion follows chunk_number: a record with a larger chunk_number has *)
(* a larger id than one with a smaller chunk_number, also when the inserts *)
(* are tasks gathered together.                                            *)
C23_IdsFollowChunkNumbers ==
    Ingested =>
        \A r, s \in Range(ret.inserted) :
            (r.page_number = s.page_number /\ r.chunk_number < s.chunk_number)
                => r.id < s.id

(* the gathered inserts of a Word file with paragraphs and a table are in  *)
(* the store                                                               *)
C23_Witness ==
    /\ ret.op = DOCX /\ ret.rev = "utils.py"
    /\ Len(ret.inserted) >= 4
    /\ Range(ret.inserted) \subseteq Range(chunks)
    /\ \E r, s \in Range(ret.inserted) :
          /\ r.page_number = None /\ s.page_number = None
          /\ r.chunk_content = "tabela" /\ s.chunk_content # "tabela"
          /\ s.id < r.id

----------------------------------------------------------------------------
(* An image of a PDF that cannot be extracted *)

HasBadImage(doc) ==
    \E i \in DOMAIN doc : \E k \in DOMAIN doc[i].images : ~doc[i].images[k].extractable

(* C24: when extracting one embedded image of a PDF fails, the failure     *)
(* stays with that image: the text and table chunks of its page, the other *)
(* images of the page and all the other pages are stored, and the          *)
(* ingestion of the document is not aborted.                               *)
C24_BadImageIsConfined ==
    (PdfRun /\ HasBadImage(ret.doc) /\ ~ret.write_failed) =>
        /\ ret.outcome # "raised"
        /\ \A i \in DOMAIN ret.doc :
              /\ \A v \in Range(TextTableValues(ret.file_name, i - 1, ret.doc[i])) :
                    \E r \in Range(chunks) :
                        r.file_name = ret.file_name /\ Stored(r) = StoredOfValue(v)
              /\ \A k \in DOMAIN ret.doc[i].images :
                    ret.doc[i].images[k].extractable =>
                        \E r \in Range(chunks) :
                            /\ r.file_name = ret.file_name
                            /\ r.page_number = Some(i)
                            /\ r.chunk_content = "imagem"
                            /\ r.image_data = Some(b64encode(ret.doc[i].images[k].bytes))

(* src/MarkDB.py has given up a document of two pages at an image of its   *)
(* first page, and the store holds nothing of it                           *)
C24_Witness ==
    /\ PdfRun /\ ret.rev = "MarkDB.py"
    /\ HasBadImage(ret.doc) /\ Len(ret.doc) = 2
    /\ ~ret.write_failed
    /\ ret.outcome = "raised"
    /\ chunks = <<>>

----------------------------------------------------------------------------
(* The place of the records without a page in the export of a file *)

(* C25: in the text of export_all_chunks_to_md, the records whose           *)
(* page_number is null come after all the records that have a page_number,  *)
(* and they are ordered among themselves by chunk_number.                   *)
C25_NullPagesComeLast ==
    (Exported /\ ret.val[1] # None) =>
        LET ids == SectionIds(ret.val[1])
        IN  \A k, l \in DOMAIN ids :
               (k < l /\ RowOfId(ids[k]).page_number = None) =>
                   /\ RowOfId(ids[l]).page_number = None
                   /\ RowOfId(ids[k]).chunk_number <= RowOfId(ids[l]).chunk_number

(* an export whose first section is a record without a page and whose      *)
(* last section is a record of page 1                                      *)
C25_Witness ==
    /\ Exported /\ ret.val[1] # None
    /\ LET ids == SectionIds(ret.val[1])
       IN  /\ Len(ids) >= 2
           /\ RowOfId(ids[1]).page_number = None
           /\ RowOfId(ids[Len(ids)]).page_number = Some(1)

----------------------------------------------------------------------------
(* The records of an image file *)

ImageDone == ret.op = IMAGE /\ ret.outcome = "True"

(* C26: an image file in which OCR finds no text still gets one chunk that *)
(* holds its caption only; an image ingestion that succeeded never leaves  *)
(* the store without a record of that file.                                *)
C26_ImageAlwaysLeavesARecord ==
    ImageDone =>
        /\ \E r \in Range(chunks) : r.file_name = ret.file_name
        /\ Strip(ret.doc.ocr_text) = <<>> =>
              /\ Len(ret.inserted) = 1
              /\ ret.inserted[1].chunk_content = "imagem"
              /\ ret.inserted[1] \in Range(chunks)

(* src/MarkDB/utils.py has returned True for an image without text, and    *)
(* the store is empty                                                      *)
C26_Witness ==
    /\ ImageDone /\ ret.rev = "utils.py"
    /\ Strip(ret.doc.ocr_text) = <<>>
    /\ ret.inserted = <<>>
    /\ chunks = <<>>

----------------------------------------------------------------------------
(* The page of the records of a Word document *)

DocxRun == ret.op = DOCX

(* C27: every record that the Word extractor has written has a null        *)
(* page_number.                                                            *)
C27_WordRecordsHaveNoPage ==
    DocxRun => \A r \in Range(ret.inserted) : r.page_number = None

(* src/MarkDB.py has stored the chunks of a Word document, all of them     *)
(* with page_number 1                                                      *)
C27_Witness ==
    /\ DocxRun /\ ret.rev = "MarkDB.py" /\ ret.outcome = "True"
    /\ Len(ret.inserted) >= 2
    /\ \A r \in Range(ret.inserted) : r \in Range(chunks) /\ r.page_number = Some(1)

----------------------------------------------------------------------------
(* The numbers printed in the header of a record *)

(* the tokens that follow `label` in a content                             *)
Printed(content, label) ==
    { content[i + 1] : i \in { j \in 1..(Len(content) - 1) : content[j] = label } }

WrittenByAnExtractor == { r \in Range(chunks) : r.upload_time = DMY }

(* C28: for every record written by an extractor, the chunk number printed *)
(* in the header of its content is its chunk_number, and the page printed  *)
(* there, when one is printed, is its page_number; this includes the       *)
(* records of the second and later sheets of a spreadsheet.                *)
C28_HeaderAgreesWithTheColumns ==
    \A r \in WrittenByAnExtractor :
        /\ \A n \in Printed(r.content, "\n**Chunk**: ") : n = IntStr(r.chunk_number)
        /\ \A n \in Printed(r.content, "\n**Pagina**: ") :
              r.page_number # None /\ n = IntStr(r.page_number[1])

(* the record of the second sheet of a workbook, stored by src/MarkDB.py:  *)
(* chunk_number 1 under a header that prints chunk 2                       *)
C28_Witness ==
    /\ ret.op = XLSX /\ ret.rev = "MarkDB.py" /\ ret.outcome = "True"
    /\ Len(ret.doc) = 2
    /\ \E r \in Range(ret.inserted) :
          /\ r \in WrittenByAnExtractor
          /\ r.page_number = Some(2) /\ r.chunk_number = 1
          /\ Printed(r.content, "\n**Chunk**: ") = {"2"}

----------------------------------------------------------------------------
(* The chunk numbers of a page *)

(* the records that the last run has written and the store holds           *)
WrittenByTheRun == { r \in Range(ret.inserted) : r \in Range(chunks) }

(* C29: the records of one page that one run of a PDF extractor has        *)
(* written are numbered 1..k without a gap, also when one of the images of *)
(* the page could not be extracted.                                        *)
C29_ChunkNumbersHaveNoGap ==
    PdfRun =>
        \A p \in { r.page_number : r \in WrittenByTheRun } :
            LET rows == { r \in WrittenByTheRun : r.page_number = p }
            IN  { r.chunk_number : r \in rows } = 1..Cardinality(rows)

(* src/MarkDB/utils.py has stored the second image of a page whose first   *)
(* image could not be extracted: the page has chunk 2 and no chunk 1       *)
C29_Witness ==
    /\ PdfRun /\ ret.rev = "utils.py" /\ ~ret.write_failed
    /\ HasBadImage(ret.doc)
    /\ \E r \in WrittenByTheRun :
          /\ r.chunk_content = "imagem" /\ r.chunk_number = 2
          /\ ~\E s \in Range(chunks) :
                /\ s.file_name = r.file_name /\ s.page_number = r.page_number
                /\ s.chunk_number = 1

----------------------------------------------------------------------------
(* The tag of the text chunks under a chunk size that is wider than the    *)
(* text.  The chunk size is a setting of the session; the extractors below *)
(* are called once, on an empty store, with a text and a chunk size drawn  *)
(* from bounded sets, so that a text of six short lines fits in one piece. *)

MaxLineText == 4
WideChunkSize == 12

LineChars == {"a", "1", "\n"}
SIX_LINES == <<"a", "\n", "a", "\n", "a", "\n", "a", "\n", "a", "\n", "a">>
LineTexts ==
    UNION { [1..n -> LineChars] : n \in 0..MaxLineText }
    \cup { SIX_LINES, SIX_LINES \o <<"\n">>, <<" ">> \o SIX_LINES \o <<"\n", "a", "a">> }
SessionChunkSizes == {ChunkSize, WideChunkSize}

(* the pieces kept whole, without textwrap.wrap                            *)
SessionPieces_unwrapped(text, CHUNK_SIZE) ==
    IF Strip(text) = <<>> THEN <<>> ELSE <<text>>

(* if text.strip(): chunks = textwrap.wrap(text, CHUNK_SIZE of the session) *)
SessionPieces(text, CHUNK_SIZE) ==
    IF Strip(text) = <<>> THEN <<>> ELSE wrap(text, CHUNK_SIZE)

InitLines ==
    /\ chunks = <<>>
    /\ sqlite_sequence = 0
    /\ openai_api_key = FALSE
    /\ job \in { Call(op, [text |-> t, CHUNK_SIZE |-> w]) :
                   op \in {PDF, DOCX, IMAGE}, t \in LineTexts,
                   w \in SessionChunkSizes }
    /\ ret = [op |-> "MarkDB"]

(* the end of an extractor that writes `values` in one transaction         *)
WriteAll(op, rev, file_name, values, done, failed) ==
    \E fault \in BOOLEAN :
        LET txn == TxnInsert(<<>>, values)
        IN  IF fault /\ values # <<>>
            THEN /\ Rollback
                 /\ ret' = Result(op, rev, file_name, job.arg, failed, TRUE, 1, <<>>)
            ELSE /\ Commit(txn)
                 /\ ret' = Result(op, rev, file_name, job.arg, done, FALSE, 0, txn)

(* src/MarkDB.py, process_pdf_to_chunks on a PDF of one page that holds    *)
(* the text and neither a table nor an image                               *)
call_process_pdf_to_chunks ==
    /\ job.kind = "call" /\ job.op = PDF
    /\ WriteAll(PDF, "MarkDB.py", "a.pdf",
                TextValues("a.pdf", Some(1),
                           SessionPieces(job.arg.text, job.arg.CHUNK_SIZE), 1),
                "None", "raised")
    /\ job' = Idle
    /\ UNCHANGED openai_api_key

(* src/MarkDB.py, process_docx_to_chunks on a document without tables      *)
(* whose paragraphs, joined by newlines, are the text                      *)
call_process_docx_to_chunks ==
    /\ job.kind = "call" /\ job.op = DOCX
    /\ LET pieces == SessionPieces(job.arg.text, job.arg.CHUNK_SIZE)
       IN  WriteAll(DOCX, "MarkDB.py", "b.docx",
                    [ i \in 1..Len(pieces) |->
                        << "b.docx", Some(1), i,
                           Header("b.docx", None, i) \o Strip(pieces[i]),
                           detect_chunk_type(pieces[i]), DMY, None, None >> ],
                    "True", "False")
    /\ job' = Idle
    /\ UNCHANGED openai_api_key

(* src/MarkDB/utils.py, process_image_to_chunks on an image in which OCR   *)
(* finds the text                                                          *)
call_process_image_to_chunks ==
    /\ job.kind = "call" /\ job.op = IMAGE
    /\ WriteAll(IMAGE, "utils.py", "i.png",
                TextValues("i.png", None,
                           SessionPieces(job.arg.text, job.arg.CHUNK_SIZE), 1),
                "True", "False")
    /\ job' = Idle
    /\ UNCHANGED openai_api_key

NextLines ==
    \/ call_process_pdf_to_chunks
    \/ call_process_docx_to_chunks
    \/ call_process_image_to_chunks

SpecLines == InitLines /\ [][NextLines]_vars

(* C30: no text chunk that the PDF, Word or OCR extractors have stored is  *)
(* tagged "lista": the pieces that wrapping yields are single lines.       *)
C30_NoTextChunkIsALista ==
    \A r \in Range(chunks) : r.upload_time = DMY => r.chunk_content # "lista"

(* a text of six short lines, stored whole as one record under the wide    *)
(* chunk size, tagged "texto"                                              *)
C30_Witness ==
    /\ ret.op \in {PDF, DOCX, IMAGE} /\ ~ret.write_failed
    /\ ret.doc.text = SIX_LINES /\ ret.doc.CHUNK_SIZE = WideChunkSize
    /\ Len(SplitLines(ret.doc.text)) > 5
    /\ Len(chunks) = 1
    /\ chunks[1].chunk_content = "texto"

============================================================================
